---- MODULE Spec2Model ----
(***************************************************************************)
(* Retention analyzer of reap: the dominator engine of dominator.rs, the   *)
(* reachability / restriction filter, the subtree-size aggregator and the  *)
(* pruned dominator subgraph of analyze.rs.                                *)
(*                                                                         *)
(* Graph nodes are dense indices 0..n-1 (petgraph NodeIndex<usize>); a     *)
(* graph is a record [nodes, edges], nodes a sequence of Objects (index i  *)
(* holds nodes[i+1]) and edges a sequence of <<source, target>> pairs in   *)
(* insertion order. A HashMap is a function; where the code iterates a     *)
(* HashMap, the iteration order is an input of the operator.               *)
(***************************************************************************)
EXTENDS Integers, Sequences, FiniteSets, TLC

VARIABLES graph, pc, domtree, chosen_root, analysis, relevance_threshold, subgraph,
          top_n, ranked, given_root, filtered, reader, parser, engine, filter_call

vars == <<graph, pc, domtree, chosen_root, analysis, relevance_threshold, subgraph,
          top_n, ranked, given_root, filtered, reader, parser, engine, filter_call>>

\* The state of the ranked queries, of main.rs and of the graph builder
rankVars == <<top_n, ranked>>

mainVars == <<given_root, filtered>>

parseVars == <<reader, parser>>

\* The state of the dominator engine run one loop turn at a time
engVars == <<engine>>

\* The call of find_addrs_of_filtered_edges and its result
filterVars == <<filter_call>>

-----------------------------------------------------------------------------
(* Bounds of the input graphs *)

NumNodes == 4

MaxEdges == 4

-----------------------------------------------------------------------------
(* Constants of dominator.rs *)

ROOT == 0

STRIDE == 4

DONE == 1

SEEN == 2

\* Option::None of an index (DomNode.idom, HashMap::get)
None == -1

-----------------------------------------------------------------------------
(* Sequence helpers *)

Last(s) == s[Len(s)]

Front(s) == SubSeq(s, 1, Len(s) - 1)

Reverse(s) == [k \in 1..Len(s) |-> s[Len(s) + 1 - k]]

Range(s) == {s[k] : k \in 1..Len(s)}

Min(a, b) == IF a <= b THEN a ELSE b

\* All enumerations without repetition of the finite set S
RECURSIVE Perms(_)
Perms(S) ==
    IF S = {} THEN {<<>>}
    ELSE UNION {{<<x>> \o p : p \in Perms(S \ {x})} : x \in S}

-----------------------------------------------------------------------------
(* object.rs *)

\* Object { address, bytes, kind, label }; an Option is a sequence of at most
\* one element, <<>> for None and <<v>> for Some(v)
Object(address, bytes, kind, label) ==
    [address |-> address, bytes |-> bytes, kind |-> kind, label |-> label]

\* Object::root
root_object == Object(0, 0, "ROOT", <<"root">>)

\* Object::is_root
is_root(obj) == obj.address = 0

\* Object::stats
stats(obj) == [count |-> 1, bytes |-> obj.bytes]

\* Stats::default
StatsDefault == [count |-> 0, bytes |-> 0]

\* Stats::add that sums the counts and forgets the bytes of the other
add_KeepBytes(a, b) == [count |-> a.count + b.count, bytes |-> a.bytes]

\* Stats::add
add(a, b) == [count |-> a.count + b.count, bytes |-> a.bytes + b.bytes]

-----------------------------------------------------------------------------
(* petgraph Graph accessors *)

\* Graph::default
EmptyGraph == [nodes |-> <<>>, edges |-> <<>>]

node_indices(g) == 0..(Len(g.nodes) - 1)

node_count(g) == Len(g.nodes)

edge_count(g) == Len(g.edges)

\* graph[i]
Weight(g, i) == g.nodes[i + 1]

\* The successors of every node, in edge order: the adjacency list handed to
\* DominatorTree::from_graph
RECURSIVE TargetsOf(_, _, _)
TargetsOf(edges, i, k) ==
    IF k > Len(edges) THEN <<>>
    ELSE (IF edges[k][1] = i THEN <<edges[k][2]>> ELSE <<>>) \o TargetsOf(edges, i, k + 1)

AdjList(g) == [i \in node_indices(g) |-> TargetsOf(g.edges, i, 1)]

-----------------------------------------------------------------------------
(* dominator.rs: DominatorTree *)

\* DomNode::default
DomNodeDefault == [predecessors |-> <<>>, rpo_number |-> 0, idom |-> None]

\* DominatorTree::new followed by the resize of compute; panic is "" unless
\* an expect or assertion failed
NewTree(adj_list) ==
    [nodes |-> [i \in DOMAIN adj_list |-> DomNodeDefault],
     postorder |-> <<>>,
     stack |-> <<>>,
     panic |-> ""]

\* for succ in adj_list[node] { .. } of compute_postorder
RECURSIVE ScanSuccessors(_, _, _, _)
ScanSuccessors(t, node, succs, k) ==
    IF k > Len(succs) THEN t
    ELSE LET succ == succs[k]
             fresh == t.nodes[succ].rpo_number = 0
             n1 == IF fresh THEN [t.nodes EXCEPT ![succ].rpo_number = SEEN] ELSE t.nodes
             n2 == [n1 EXCEPT ![succ].predecessors = Append(@, node)]
             s2 == IF fresh THEN Append(t.stack, succ) ELSE t.stack
         IN  ScanSuccessors([t EXCEPT !.nodes = n2, !.stack = s2], node, succs, k + 1)

\* while let Some(node) = stack.pop() { .. } of compute_postorder
RECURSIVE PostorderLoop(_, _)
PostorderLoop(t, adj_list) ==
    IF t.stack = <<>> THEN t
    ELSE LET node == Last(t.stack)
             popped == [t EXCEPT !.stack = Front(t.stack)]
         IN  IF t.nodes[node].rpo_number = SEEN
             THEN PostorderLoop(
                      ScanSuccessors(
                          [popped EXCEPT !.nodes[node].rpo_number = DONE,
                                         !.stack = Append(popped.stack, node)],
                          node, adj_list[node], 1),
                      adj_list)
             ELSE IF t.nodes[node].rpo_number = DONE
             THEN PostorderLoop([popped EXCEPT !.postorder = Append(@, node)], adj_list)
             ELSE [popped EXCEPT !.panic = "unreachable"]

compute_postorder(t, adj_list) ==
    PostorderLoop([t EXCEPT !.stack = <<ROOT>>, !.nodes[ROOT].rpo_number = SEEN], adj_list)

\* rpo_cmp: -1 Less, 0 Equal, 1 Greater
rpo_cmp(nodes, a, b) ==
    IF nodes[a].rpo_number < nodes[b].rpo_number THEN -1
    ELSE IF nodes[a].rpo_number > nodes[b].rpo_number THEN 1
    ELSE 0

\* common_dominator; the result is [panic, idom]. debug is the build's
\* debug_assertions setting (the final debug_assert_eq!).
RECURSIVE common_dominator(_, _, _, _)
common_dominator(nodes, a, b, debug) ==
    IF rpo_cmp(nodes, a, b) = -1
    THEN IF nodes[b].idom = None
         THEN [panic |-> "Unreachable node?", idom |-> None]
         ELSE common_dominator(nodes, a, nodes[b].idom, debug)
    ELSE IF rpo_cmp(nodes, a, b) = 1
    THEN IF nodes[a].idom = None
         THEN [panic |-> "Unreachable node?", idom |-> None]
         ELSE common_dominator(nodes, nodes[a].idom, b, debug)
    ELSE IF debug /\ a # b
    THEN [panic |-> "Unreachable node passed to common_dominator?", idom |-> None]
    ELSE [panic |-> "", idom |-> a]

\* for pred in reachable_preds { idom = common_dominator(idom, pred) }
RECURSIVE FoldPreds(_, _, _, _, _)
FoldPreds(nodes, acc, preds, k, debug) ==
    IF k > Len(preds) \/ acc.panic # "" THEN acc
    ELSE FoldPreds(nodes, common_dominator(nodes, acc.idom, preds[k], debug), preds, k + 1, debug)

\* compute_idom; the result is [panic, idom]
compute_idom(nodes, node, debug) ==
    LET reachable_preds ==
            SelectSeq(nodes[node].predecessors, LAMBDA pred : nodes[pred].rpo_number > 1)
    IN  IF reachable_preds = <<>>
        THEN [panic |-> "Node must have one reachable predecessor", idom |-> None]
        ELSE FoldPreds(nodes, [panic |-> "", idom |-> reachable_preds[1]],
                       reachable_preds, 2, debug)

\* First pass of compute_domtree: for (rpo_idx, &node) in postorder.iter().rev().enumerate()
RECURSIVE FirstPass(_, _, _, _)
FirstPass(t, order, k, debug) ==
    IF k > Len(order) \/ t.panic # "" THEN t
    ELSE LET node == order[k]
             r == compute_idom(t.nodes, node, debug)
         IN  IF r.panic # "" THEN [t EXCEPT !.panic = r.panic]
             ELSE FirstPass([t EXCEPT !.nodes[node].idom = r.idom,
                                      !.nodes[node].rpo_number = ((k - 1) + 3) * STRIDE],
                            order, k + 1, debug)

\* One sweep of the convergence loop: for &node in postorder.iter().rev();
\* the result is [t, changed]
RECURSIVE Sweep(_, _, _, _, _)
Sweep(t, order, k, changed, debug) ==
    IF k > Len(order) \/ t.panic # "" THEN [t |-> t, changed |-> changed]
    ELSE LET node == order[k]
             r == compute_idom(t.nodes, node, debug)
         IN  IF r.panic # "" THEN [t |-> [t EXCEPT !.panic = r.panic], changed |-> changed]
             ELSE IF t.nodes[node].idom # r.idom
             THEN Sweep([t EXCEPT !.nodes[node].idom = r.idom], order, k + 1, TRUE, debug)
             ELSE Sweep(t, order, k + 1, changed, debug)

\* while changed { .. } of compute_domtree
RECURSIVE Converge(_, _)
Converge(t, debug) ==
    LET s == Sweep(t, Reverse(t.postorder), 1, FALSE, debug)
    IN  IF s.t.panic # "" THEN s.t
        ELSE IF s.changed THEN Converge(s.t, debug)
        ELSE s.t

\* debug_assert_eq!(Some(ROOT), self.postorder.pop()): the pop is an argument
\* of the debug assertion, so it is evaluated only when debug_assertions is on
PopRoot(t, debug) ==
    IF ~debug THEN t
    ELSE IF t.postorder = <<>> \/ Last(t.postorder) # ROOT
    THEN [t EXCEPT !.panic = "assertion failed: Some(ROOT) == postorder.pop()",
                   !.postorder = IF t.postorder = <<>> THEN <<>> ELSE Front(t.postorder)]
    ELSE [t EXCEPT !.postorder = Front(t.postorder)]

compute_domtree(t, debug) ==
    LET t1 == PopRoot(t, debug)
        t2 == [t1 EXCEPT !.nodes[ROOT].rpo_number = 2 * STRIDE]
        t3 == FirstPass(t2, Reverse(t2.postorder), 1, debug)
    IN  IF t1.panic # "" THEN t1
        ELSE IF t3.panic # "" THEN t3
        ELSE Converge(t3, debug)

\* compute
compute(adj_list, debug) ==
    LET t == compute_postorder(NewTree(adj_list), adj_list)
    IN  IF t.panic # "" THEN t ELSE compute_domtree(t, debug)

\* DominatorTree::from_graph
from_graph(adj_list, debug) == compute(adj_list, debug)

\* DominatorTree::idom
idom(t, node) == t.nodes[node].idom

-----------------------------------------------------------------------------
(* dominator.rs, one loop turn at a time. The engine is the DominatorTree   *)
(* (nodes, postorder), the stack of compute_postorder and the locals of     *)
(* compute_domtree (pass, k, changed), compute_idom (node, idom, pending)   *)
(* and common_dominator (a, b); phase is the loop the run is in.            *)

\* The engine at the entry of the while loop of compute_postorder
EngineStart(adj_list, debug) ==
    [phase |-> "postorder",
     debug |-> debug,
     nodes |-> [NewTree(adj_list).nodes EXCEPT ![ROOT].rpo_number = SEEN],
     postorder |-> <<>>,
     stack |-> <<ROOT>>,
     panic |-> "",
     pass |-> "",
     k |-> 0,
     changed |-> FALSE,
     node |-> None,
     idom |-> None,
     pending |-> <<>>,
     a |-> None,
     b |-> None]

Panicked(e, msg) == [e EXCEPT !.panic = msg, !.phase = "panicked"]

\* One turn of while let Some(node) = stack.pop() of compute_postorder
postorder_turn(e, adj_list) ==
    LET node == Last(e.stack)
        popped == [e EXCEPT !.stack = Front(e.stack)]
    IN  IF e.nodes[node].rpo_number = SEEN
        THEN ScanSuccessors([popped EXCEPT !.nodes[node].rpo_number = DONE,
                                           !.stack = Append(popped.stack, node)],
                            node, adj_list[node], 1)
        ELSE IF e.nodes[node].rpo_number = DONE
        THEN [popped EXCEPT !.postorder = Append(@, node)]
        ELSE Panicked(popped, "unreachable")

\* The entry of compute_domtree up to the head of the first pass
domtree_entry(e) ==
    LET t1 == PopRoot(e, e.debug)
    IN  IF t1.panic # "" THEN Panicked(t1, t1.panic)
        ELSE [t1 EXCEPT !.nodes[ROOT].rpo_number = 2 * STRIDE,
                        !.phase = "pass", !.pass = "first", !.k = 1]

\* The entry of compute_idom for the k-th node of postorder.iter().rev(): the
\* first reachable predecessor is taken, the others are still to fold
idom_entry(e) ==
    LET node == Reverse(e.postorder)[e.k]
        reachable_preds ==
            SelectSeq(e.nodes[node].predecessors, LAMBDA pred : e.nodes[pred].rpo_number > 1)
    IN  IF reachable_preds = <<>>
        THEN Panicked([e EXCEPT !.node = node], "Node must have one reachable predecessor")
        ELSE [e EXCEPT !.phase = "fold", !.node = node,
                       !.idom = reachable_preds[1], !.pending = Tail(reachable_preds)]

\* The return of compute_idom to the pass that called it
idom_return(e) ==
    LET next == [e EXCEPT !.phase = "pass", !.k = @ + 1]
    IN  IF e.pass = "first"
        THEN [next EXCEPT !.nodes[e.node].idom = e.idom,
                          !.nodes[e.node].rpo_number = ((e.k - 1) + 3) * STRIDE]
        ELSE IF e.nodes[e.node].idom # e.idom
        THEN [next EXCEPT !.nodes[e.node].idom = e.idom, !.changed = TRUE]
        ELSE next

\* One turn of for pred in reachable_preds of compute_idom: the call of
\* common_dominator(idom, *pred), or the return when no predecessor is left
fold_turn(e) ==
    IF e.pending = <<>> THEN idom_return(e)
    ELSE [e EXCEPT !.phase = "walk", !.a = e.idom, !.b = e.pending[1]]

\* The finger of common_dominator that is moved up when the comparison of
\* the RPO numbers is not Equal, moving the one that comes first in the RPO
MovedFinger_Smaller(nodes, a, b) == IF rpo_cmp(nodes, a, b) = -1 THEN "a" ELSE "b"

\* The finger of common_dominator that is moved up when the comparison of
\* the RPO numbers is not Equal
MovedFinger(nodes, a, b) == IF rpo_cmp(nodes, a, b) = -1 THEN "b" ELSE "a"

\* One turn of the loop of common_dominator; a finger whose idom is the node
\* itself would stay in place for ever
walk_turn(e) ==
    IF rpo_cmp(e.nodes, e.a, e.b) = 0
    THEN IF e.debug /\ e.a # e.b
         THEN Panicked(e, "Unreachable node passed to common_dominator?")
         ELSE [e EXCEPT !.phase = "fold", !.idom = e.a, !.pending = Tail(e.pending)]
    ELSE LET finger == MovedFinger(e.nodes, e.a, e.b)
             from == IF finger = "a" THEN e.a ELSE e.b
             to == e.nodes[from].idom
         IN  IF to = None THEN Panicked(e, "Unreachable node?")
             ELSE IF to = from THEN [e EXCEPT !.phase = "diverged"]
             ELSE IF finger = "a" THEN [e EXCEPT !.a = to]
             ELSE [e EXCEPT !.b = to]

\* The end of a pass over postorder.iter().rev(): the first pass is followed
\* by a sweep, a sweep that changed an idom by another sweep
pass_end(e) ==
    IF e.pass = "first" THEN [e EXCEPT !.pass = "sweep", !.k = 1, !.changed = FALSE]
    ELSE IF e.changed THEN [e EXCEPT !.k = 1, !.changed = FALSE]
    ELSE [e EXCEPT !.phase = "done"]

-----------------------------------------------------------------------------
(* std HashMap, as a function *)

EmptyMap == [k \in {} |-> 0]

\* HashMap::insert
Insert(m, k, v) == [x \in (DOMAIN m) \cup {k} |-> IF x = k THEN v ELSE m[x]]

-----------------------------------------------------------------------------
(* petgraph, as used by analyze.rs *)

\* The position mapping of Graph::filter_map: the kept old indices in index
\* order; old index seq[k] becomes new index k - 1
RECURSIVE KeptSeq(_, _, _)
KeptSeq(g, Keep, i) ==
    IF i >= node_count(g) THEN <<>>
    ELSE (IF i \in Keep THEN <<i>> ELSE <<>>) \o KeptSeq(g, Keep, i + 1)

NewIndex(kept, old) == (CHOOSE k \in 1..Len(kept) : kept[k] = old) - 1

\* Graph::filter_map with a node closure that keeps the nodes of Keep
\* (weights cloned) and the edge closure |_, e| Some(*e)
filter_map(g, Keep) ==
    LET kept == KeptSeq(g, Keep, 0)
        keptEdges == SelectSeq(g.edges, LAMBDA e : e[1] \in Keep /\ e[2] \in Keep)
    IN  [nodes |-> [k \in 1..Len(kept) |-> Weight(g, kept[k])],
         edges |-> [k \in 1..Len(keptEdges) |->
                        <<NewIndex(kept, keptEdges[k][1]), NewIndex(kept, keptEdges[k][2])>>]]

\* Dfs::new(&graph, root) and the loop over dfs.next(&graph): the set of
\* discovered nodes once the stack is empty
RECURSIVE DfsLoop(_, _, _)
DfsLoop(adj, stack, discovered) ==
    IF stack = <<>> THEN discovered
    ELSE LET node == Last(stack)
             rest == Front(stack)
         IN  IF node \in discovered THEN DfsLoop(adj, rest, discovered)
             ELSE LET d2 == discovered \cup {node}
                      push == SelectSeq(adj[node], LAMBDA s : s \notin d2)
                  IN  DfsLoop(adj, rest \o push, d2)

\* petgraph::algo::dominators::simple_fast(&graph, root), read through
\* Dominators::immediate_dominator: the Cooper-Harvey-Kennedy engine run with
\* root in the place of index 0; None for root and for unreachable nodes
Swap(root, i) == IF i = root THEN ROOT ELSE IF i = ROOT THEN root ELSE i

simple_fast(g, root) ==
    LET adj == AdjList(g)
        sw == [i \in DOMAIN adj |->
                  [k \in 1..Len(adj[Swap(root, i)]) |-> Swap(root, adj[Swap(root, i)][k])]]
        t == from_graph(sw, TRUE)
    IN  [i \in DOMAIN adj |->
            IF idom(t, Swap(root, i)) = None THEN None ELSE Swap(root, idom(t, Swap(root, i)))]

-----------------------------------------------------------------------------
(* analyze.rs *)

\* find_dominators
find_dominators(root, g) ==
    LET dominators == simple_fast(g, root)
    IN  [i \in {j \in node_indices(g) : dominators[j] # None} |-> dominators[i]]

\* find_reachable_indices
find_reachable_indices(root, g) == {root} \cup DfsLoop(AdjList(g), <<root>>, {})

\* map_indices; the result is [panic, root, dominators]
RECURSIVE IndexByAddr(_, _, _)
IndexByAddr(g, m, i) ==
    IF i >= node_count(g) THEN m
    ELSE IndexByAddr(g, Insert(m, Weight(g, i).address, i), i + 1)

map_indices(g, addr_edges, root) ==
    LET index_by_addr == IndexByAddr(g, EmptyMap, 0)
        known == DOMAIN index_by_addr
        missing == \E a \in DOMAIN addr_edges : a \notin known \/ addr_edges[a] \notin known
    IN  IF missing \/ root \notin known
        THEN [panic |-> "map_indices: key not found", root |-> None, dominators |-> EmptyMap]
        ELSE [panic |-> "",
              root |-> index_by_addr[root],
              dominators |->
                  [i \in {index_by_addr[a] : a \in DOMAIN addr_edges} |->
                      LET a == CHOOSE x \in DOMAIN addr_edges : index_by_addr[x] = i
                      IN  index_by_addr[addr_edges[a]]]]

\* The closure of remove_unreachable without its i == root case
RECURSIVE SortReachable_NoRootCase(_, _, _, _, _)
SortReachable_NoRootCase(root, g, dominators, acc, i) ==
    IF i >= node_count(g) THEN acc
    ELSE LET w == Weight(g, i)
         IN  IF i \in DOMAIN dominators
             THEN SortReachable_NoRootCase(root, g, dominators,
                                           [acc EXCEPT !.keep = @ \cup {i},
                                                       !.dominator_addrs =
                                                           Insert(@, w.address,
                                                                  Weight(g, dominators[i]).address)],
                                           i + 1)
             ELSE SortReachable_NoRootCase(root, g, dominators,
                                           [acc EXCEPT !.unreachable = Append(@, w)], i + 1)

\* The node closure of remove_unreachable, folded over the node indices:
\* [keep, unreachable, dominator_addrs]
RECURSIVE SortReachable(_, _, _, _, _)
SortReachable(root, g, dominators, acc, i) ==
    IF i >= node_count(g) THEN acc
    ELSE LET w == Weight(g, i)
         IN  IF i = root
             THEN SortReachable(root, g, dominators,
                                [acc EXCEPT !.keep = @ \cup {i}], i + 1)
             ELSE IF i \in DOMAIN dominators
             THEN SortReachable(root, g, dominators,
                                [acc EXCEPT !.keep = @ \cup {i},
                                            !.dominator_addrs =
                                                Insert(@, w.address,
                                                       Weight(g, dominators[i]).address)],
                                i + 1)
             ELSE SortReachable(root, g, dominators,
                                [acc EXCEPT !.unreachable = Append(@, w)], i + 1)

\* remove_unreachable; the result is [panic, root, dominated_subgraph, rest, dominators]
remove_unreachable(root, g, dominators, debug) ==
    LET acc == SortReachable(root, g, dominators,
                             [keep |-> {}, unreachable |-> <<>>, dominator_addrs |-> EmptyMap], 0)
        reachable == filter_map(g, acc.keep)
        mapped == map_indices(reachable, acc.dominator_addrs, Weight(g, root).address)
        panic ==
            IF node_count(reachable) + Len(acc.unreachable) # node_count(g)
            THEN "assertion failed: reachable + unreachable == node_count"
            ELSE IF ~(Cardinality(DOMAIN acc.dominator_addrs) <= node_count(reachable))
            THEN "assertion failed: dominator_addrs.len() <= reachable.node_count()"
            ELSE IF debug /\ node_count(reachable) # Cardinality(find_reachable_indices(root, g))
            THEN "assertion failed: reachable.node_count() == find_reachable_indices().len()"
            ELSE mapped.panic
    IN  [panic |-> panic,
         root |-> mapped.root,
         dominated_subgraph |-> reachable,
         rest |-> acc.unreachable,
         dominators |-> mapped.dominators]

\* The flush of the path buffer left out
InsertDescendents_NoFlush(g, result, parent, descendents, k) == result

\* The loop body of find_addrs_of_filtered_edges for one (child, parent) entry
RECURSIVE InsertDescendents(_, _, _, _, _)
InsertDescendents(g, result, parent, descendents, k) ==
    IF k > Len(descendents) THEN result
    ELSE InsertDescendents(g,
                           Insert(result, Weight(g, descendents[k]).address,
                                  Weight(g, parent).address),
                           descendents[k], descendents, k + 1)

\* The loop of find_addrs_of_filtered_edges giving up instead of climbing to
\* the grandparent
WalkChain_NoClimb(root, reachable, tree_edges, g, result, child, parent, descendents) ==
    IF parent \notin reachable THEN result
    ELSE IF parent = root \/ Weight(g, parent).address \in DOMAIN result
    THEN InsertDescendents(g,
                           Insert(result, Weight(g, child).address, Weight(g, parent).address),
                           child, Reverse(descendents), 1)
    ELSE result

RECURSIVE WalkChain(_, _, _, _, _, _, _, _)
WalkChain(root, reachable, tree_edges, g, result, child, parent, descendents) ==
    IF parent \notin reachable THEN result
    ELSE IF parent = root \/ Weight(g, parent).address \in DOMAIN result
    THEN InsertDescendents(g,
                           Insert(result, Weight(g, child).address, Weight(g, parent).address),
                           child, Reverse(descendents), 1)
    ELSE IF parent \in DOMAIN tree_edges
    THEN WalkChain(root, reachable, tree_edges, g, result, parent, tree_edges[parent],
                   Append(descendents, child))
    ELSE result

\* find_addrs_of_filtered_edges; order is the order in which tree_edges.iter()
\* yields the keys of tree_edges
RECURSIVE FilterEdges(_, _, _, _, _, _, _)
FilterEdges(root, reachable, tree_edges, g, order, k, result) ==
    IF k > Len(order) THEN result
    ELSE FilterEdges(root, reachable, tree_edges, g, order, k + 1,
                     WalkChain(root, reachable, tree_edges, g, result,
                               order[k], tree_edges[order[k]], <<>>))

find_addrs_of_filtered_edges(root, reachable, tree_edges, g, order) ==
    FilterEdges(root, reachable, tree_edges, g, order, 1, EmptyMap)

\* The closure of extract_dominated_subgraph pushing every node that is not
\* dominated to not_dominated, reachable or not
RECURSIVE SortDominated_IgnoreReachable(_, _, _, _, _, _)
SortDominated_IgnoreReachable(root, g, dominator_addrs, reachable, acc, i) ==
    IF i >= node_count(g) THEN acc
    ELSE LET w == Weight(g, i)
         IN  IF i = root \/ w.address \in DOMAIN dominator_addrs
             THEN SortDominated_IgnoreReachable(root, g, dominator_addrs, reachable,
                                                [acc EXCEPT !.keep = @ \cup {i}], i + 1)
             ELSE SortDominated_IgnoreReachable(root, g, dominator_addrs, reachable,
                                                [acc EXCEPT !.not_dominated = Append(@, w)],
                                                i + 1)

\* The closure of extract_dominated_subgraph keeping every reachable node
RECURSIVE SortDominated_KeepReachable(_, _, _, _, _, _)
SortDominated_KeepReachable(root, g, dominator_addrs, reachable, acc, i) ==
    IF i >= node_count(g) THEN acc
    ELSE LET w == Weight(g, i)
         IN  IF i = root \/ w.address \in DOMAIN dominator_addrs \/ i \in reachable
             THEN SortDominated_KeepReachable(root, g, dominator_addrs, reachable,
                                              [acc EXCEPT !.keep = @ \cup {i}], i + 1)
             ELSE SortDominated_KeepReachable(root, g, dominator_addrs, reachable, acc, i + 1)

\* The closure of extract_dominated_subgraph forgetting the reachable nodes
\* that are not dominated
RECURSIVE SortDominated_DropRest(_, _, _, _, _, _)
SortDominated_DropRest(root, g, dominator_addrs, reachable, acc, i) ==
    IF i >= node_count(g) THEN acc
    ELSE LET w == Weight(g, i)
         IN  IF i = root \/ w.address \in DOMAIN dominator_addrs
             THEN SortDominated_DropRest(root, g, dominator_addrs, reachable,
                                         [acc EXCEPT !.keep = @ \cup {i}], i + 1)
             ELSE SortDominated_DropRest(root, g, dominator_addrs, reachable, acc, i + 1)

\* The node closure of extract_dominated_subgraph, folded over the node
\* indices: [keep, not_dominated]
RECURSIVE SortDominated(_, _, _, _, _, _)
SortDominated(root, g, dominator_addrs, reachable, acc, i) ==
    IF i >= node_count(g) THEN acc
    ELSE LET w == Weight(g, i)
         IN  IF i = root \/ w.address \in DOMAIN dominator_addrs
             THEN SortDominated(root, g, dominator_addrs, reachable,
                                [acc EXCEPT !.keep = @ \cup {i}], i + 1)
             ELSE IF i \in reachable
             THEN SortDominated(root, g, dominator_addrs, reachable,
                                [acc EXCEPT !.not_dominated = Append(@, w)], i + 1)
             ELSE SortDominated(root, g, dominator_addrs, reachable, acc, i + 1)

\* extract_dominated_subgraph; the result is [panic, root, dominated_subgraph,
\* rest, dominators]
extract_dominated_subgraph(root, g, dominators, order, debug) ==
    LET reachable == find_reachable_indices(root, g)
        dominator_addrs == find_addrs_of_filtered_edges(root, reachable, dominators, g, order)
        acc == SortDominated(root, g, dominator_addrs, reachable,
                             [keep |-> {}, not_dominated |-> <<>>], 0)
        dominated == filter_map(g, acc.keep)
        rest == acc.not_dominated
        nAddrs == Cardinality(DOMAIN dominator_addrs)
        mapped == map_indices(dominated, dominator_addrs, Weight(g, root).address)
        panic ==
            IF ~(Cardinality(reachable) <= node_count(g))
            THEN "assertion failed: reachable.len() <= graph.node_count()"
            ELSE IF ~(nAddrs <= node_count(g))
            THEN "assertion failed: dominator_addrs.len() <= graph.node_count()"
            ELSE IF ~(nAddrs <= Cardinality(DOMAIN dominators))
            THEN "assertion failed: dominator_addrs.len() <= dominators.len()"
            ELSE IF ~(nAddrs <= Cardinality(reachable))
            THEN "assertion failed: dominator_addrs.len() <= reachable.len()"
            ELSE IF node_count(dominated) + Len(rest) # Cardinality(reachable)
            THEN "assertion failed: dominated + rest == reachable"
            ELSE IF ~(node_count(dominated) <= nAddrs + 1)
            THEN "assertion failed: dominated.node_count() <= dominator_addrs.len() + 1"
            ELSE IF debug /\ nAddrs # Cardinality(DOMAIN
                     find_addrs_of_filtered_edges(root, node_indices(g), dominators, g, order))
            THEN "assertion failed: dominator_addrs.len() == unfiltered len"
            ELSE mapped.panic
    IN  [panic |-> panic,
         root |-> mapped.root,
         dominated_subgraph |-> dominated,
         rest |-> rest,
         dominators |-> mapped.dominators]

\* The walk of dominator_subtree_sizes stopping at the immediate dominator
AddToDominators_ParentOnly(dominators, sizes, i, st) ==
    IF i \notin DOMAIN dominators THEN sizes
    ELSE LET d == dominators[i]
         IN  IF d \in DOMAIN sizes THEN [sizes EXCEPT ![d] = add(@, st)] ELSE sizes

\* The inner while let of dominator_subtree_sizes: add st to every dominator of i
RECURSIVE AddToDominators(_, _, _, _)
AddToDominators(dominators, sizes, i, st) ==
    IF i \notin DOMAIN dominators THEN sizes
    ELSE LET d == dominators[i]
         IN  AddToDominators(dominators,
                             IF d \in DOMAIN sizes
                             THEN [sizes EXCEPT ![d] = add(@, st)]
                             ELSE sizes,
                             d, st)

RECURSIVE SizesLoop(_, _, _, _)
SizesLoop(g, dominators, sizes, i) ==
    IF i >= node_count(g) THEN sizes
    ELSE SizesLoop(g, dominators,
                   AddToDominators(dominators, sizes, i, stats(Weight(g, i))), i + 1)

\* dominator_subtree_sizes with every entry starting from Stats::default
dominator_subtree_sizes_NoSelf(g, dominators) ==
    SizesLoop(g, dominators, [i \in node_indices(g) |-> StatsDefault], 0)

\* dominator_subtree_sizes
dominator_subtree_sizes(g, dominators) ==
    SizesLoop(g, dominators, [i \in node_indices(g) |-> stats(Weight(g, i))], 0)

\* analyze; order is the iteration order of the dominators HashMap
analyze(orig_root, subgraph_root, g, order, debug) ==
    LET dominators == find_dominators(orig_root, g)
        r == IF subgraph_root = orig_root
             THEN remove_unreachable(orig_root, g, dominators, debug)
             ELSE extract_dominated_subgraph(subgraph_root, g, dominators, order, debug)
    IN  IF r.panic # ""
        THEN [r EXCEPT !.dominators = EmptyMap] @@ [subtree_sizes |-> EmptyMap]
        ELSE r @@ [subtree_sizes |-> dominator_subtree_sizes(r.dominated_subgraph, r.dominators)]

\* Object::with_dominator_stats: [panic, object], the object being the clone
\* with its label, the label kept as the three numbers it formats. refs is the
\* usize stats.bytes - self.bytes: when stats.bytes < self.bytes the
\* subtraction panics in a build with overflow checks (debug) and wraps
\* otherwise; a wrapped difference is kept as wrapped = TRUE and the negative
\* refs, the usize being 2^64 + refs.
with_dominator_stats(obj, st, debug) ==
    IF st.bytes < obj.bytes /\ debug
    THEN [panic |-> "attempt to subtract with overflow", object |-> obj]
    ELSE [panic |-> "",
          object |-> [address |-> obj.address,
                      bytes |-> obj.bytes,
                      kind |-> obj.kind,
                      label |-> [self |-> obj.bytes,
                                 refs |-> st.bytes - obj.bytes,
                                 wrapped |-> st.bytes < obj.bytes,
                                 objects |-> st.count]]]

\* The second loop of relevant_dominator_subgraph with the arguments of
\* add_edge exchanged
RECURSIVE AddTreeEdges_Reversed(_, _, _, _, _)
AddTreeEdges_Reversed(dominators, old_to_new, order, k, acc) ==
    IF k > Len(order) \/ acc.panic # "" THEN acc
    ELSE LET old == order[k]
         IN  IF old \notin DOMAIN dominators
             THEN AddTreeEdges_Reversed(dominators, old_to_new, order, k + 1, acc)
             ELSE IF dominators[old] \notin DOMAIN old_to_new
             THEN [acc EXCEPT !.panic = "old_to_new: key not found"]
             ELSE AddTreeEdges_Reversed(dominators, old_to_new, order, k + 1,
                                        [acc EXCEPT !.edges =
                                             Append(@, <<old_to_new[old],
                                                         old_to_new[dominators[old]]>>)])

\* Second loop of relevant_dominator_subgraph: for (old, new) in old_to_new.iter();
\* acc is [panic, edges]
RECURSIVE AddTreeEdges(_, _, _, _, _)
AddTreeEdges(dominators, old_to_new, order, k, acc) ==
    IF k > Len(order) \/ acc.panic # "" THEN acc
    ELSE LET old == order[k]
         IN  IF old \notin DOMAIN dominators
             THEN AddTreeEdges(dominators, old_to_new, order, k + 1, acc)
             ELSE IF dominators[old] \notin DOMAIN old_to_new
             THEN [acc EXCEPT !.panic = "old_to_new: key not found"]
             ELSE AddTreeEdges(dominators, old_to_new, order, k + 1,
                               [acc EXCEPT !.edges =
                                    Append(@, <<old_to_new[dominators[old]], old_to_new[old]>>)])

\* dominated_totals reading the entry of index 0 instead of the root's
dominated_totals_IndexZero(a) == a.subtree_sizes[0]

\* Analysis::dominated_totals
dominated_totals(a) == a.subtree_sizes[a.root]

\* The filter of relevant_dominator_subgraph with > in the place of >=
RetainedNodes_Strict(a, threshold_bytes, sizesOrder) ==
    SelectSeq(sizesOrder, LAMBDA i : a.subtree_sizes[i].bytes > threshold_bytes)

\* subtree_sizes.iter().filter(|(_, stats)| stats.bytes >= threshold_bytes): the
\* retained indices in the order of iteration
RetainedNodes(a, threshold_bytes, sizesOrder) ==
    SelectSeq(sizesOrder, LAMBDA i : a.subtree_sizes[i].bytes >= threshold_bytes)

RECURSIVE Pow2(_)
Pow2(e) == IF e = 0 THEN 1 ELSE 2 * Pow2(e - 1)

\* (dominated_totals().bytes as f64 * relevance_threshold).floor() as usize for
\* the f64 relevance_threshold = m * 2^-e, m >= 0. The f64 product of two
\* values is their exact product rounded to 53 bits: total * m is below 2^53
\* here, so the product is exact and its floor is the integer quotient. A
\* decimal fraction such as 0.57 is no such value for small m: the f64 the
\* literal denotes is below 57/100 and 100 times it floors to 56.
ThresholdBytes(a, m, e) == (dominated_totals(a).bytes * m) \div Pow2(e)

\* Analysis::relevant_dominator_subgraph with relevance_threshold = m * 2^-e;
\* sizesOrder is the iteration order of subtree_sizes and edgeOrder the
\* iteration order of old_to_new, a hash map of its own. The result is
\* [panic, nodes, edges].
relevant_dominator_subgraph(a, m, e, sizesOrder, edgeOrder, debug) ==
    LET threshold_bytes == ThresholdBytes(a, m, e)
        retained == RetainedNodes(a, threshold_bytes, sizesOrder)
        labelled == [k \in 1..Len(retained) |->
                        with_dominator_stats(Weight(a.dominated_subgraph, retained[k]),
                                             a.subtree_sizes[retained[k]], debug)]
        nodes == [k \in 1..Len(retained) |-> labelled[k].object]
        underflow == \E k \in 1..Len(retained) : labelled[k].panic # ""
        old_to_new == [i \in Range(retained) |-> NewIndex(retained, i)]
        tree == AddTreeEdges(a.dominators, old_to_new,
                             SelectSeq(edgeOrder, LAMBDA i : i \in DOMAIN old_to_new), 1,
                             [panic |-> "", edges |-> <<>>])
    IN  IF underflow
        THEN [panic |-> "attempt to subtract with overflow", nodes |-> <<>>, edges |-> <<>>]
        ELSE [panic |-> tree.panic, nodes |-> nodes, edges |-> tree.edges]

\* by_kind: the fold over the (object, stats) pairs objs[k] = <<obj, stats>>
RECURSIVE ByKindFold(_, _, _)
ByKindFold(objs, k, m) ==
    IF k > Len(objs) THEN m
    ELSE LET kind == objs[k][1].kind
             st == objs[k][2]
         IN  ByKindFold(objs, k + 1,
                        IF kind \in DOMAIN m
                        THEN [m EXCEPT ![kind] = add(@, st)]
                        ELSE Insert(m, kind, st))

by_kind(objs) == ByKindFold(objs, 1, EmptyMap)

\* The order of the keys usize::max_value() - c.bytes of two entries <<key, stats>>:
\* the key of a is less than the key of b when a has more bytes
KeyLess(a, b) == a[2].bytes > b[2].bytes

\* The length up to which slice::sort_unstable_by_key is an insertion sort
MAX_INSERTION == 20

\* The insertion sort of slice::sort_unstable_by_key: each element is put at
\* the tail of the sorted prefix and shifted left while its key is less than
\* the key of the element before it
RECURSIVE InsertTail(_, _)
InsertTail(sorted, e) ==
    IF sorted = <<>> \/ ~KeyLess(e, Last(sorted)) THEN Append(sorted, e)
    ELSE Append(InsertTail(Front(sorted), e), Last(sorted))

RECURSIVE InsertionSort(_, _, _)
InsertionSort(v, k, sorted) ==
    IF k > Len(v) THEN sorted ELSE InsertionSort(v, k + 1, InsertTail(sorted, v[k]))

\* The slice v in the order in which perm enumerates its positions; perm may
\* enumerate more positions than v has
Permuted(v, perm) ==
    LET p == SelectSeq(perm, LAMBDA i : i <= Len(v))
    IN  [k \in 1..Len(v) |-> v[p[k]]]

\* slice::sort_unstable_by_key. A slice of at most MAX_INSERTION elements is
\* sorted by insertion, which keeps the order of equal keys. A longer slice is
\* sorted by key with no promise on the order of equal keys: ties, a
\* permutation of positions, stands for the order in which the sort happens
\* to leave them.
sort_unstable_by_key(v, ties) ==
    IF Len(v) <= MAX_INSERTION THEN InsertionSort(v, 1, <<>>)
    ELSE InsertionSort(Permuted(v, ties), 1, <<>>)

\* The values of ties a call of sort_unstable_by_key on at most n elements
\* may meet
TieOrders(n) == IF n <= MAX_INSERTION THEN {<<>>} ELSE Perms(1..n)

\* .fold(Stats::default(), |mut acc, (_, c)| acc.add(*c))
RECURSIVE FoldStats(_, _, _)
FoldStats(entries, k, acc) ==
    IF k > Len(entries) THEN acc ELSE FoldStats(entries, k + 1, add(acc, entries[k][2]))

\* largest_and_rest folding the rest from sorted[count + 1..]
largest_and_rest_RestSkipsOne(iter, count, ties) ==
    LET sorted == sort_unstable_by_key(iter, ties)
    IN  IF count >= Len(sorted)
        THEN [largest |-> sorted, rest |-> StatsDefault]
        ELSE [largest |-> SubSeq(sorted, 1, count),
              rest |-> FoldStats(SubSeq(sorted, count + 2, Len(sorted)), 1, StatsDefault)]

\* largest_and_rest; iter is the sequence of <<key, stats>> the iterator
\* yields, ties the order the sort leaves equal keys in; the result is
\* [largest, rest]
largest_and_rest(iter, count, ties) ==
    LET sorted == sort_unstable_by_key(iter, ties)
    IN  IF count >= Len(sorted)
        THEN [largest |-> sorted, rest |-> StatsDefault]
        ELSE [largest |-> SubSeq(sorted, 1, count),
              rest |-> FoldStats(SubSeq(sorted, count + 1, Len(sorted)), 1, StatsDefault)]

\* HashMap::iter: the entries <<key, value>> of m in the order in which
\* order enumerates its keys
Iter(m, order) ==
    LET keys == SelectSeq(order, LAMBDA x : x \in DOMAIN m)
    IN  [k \in 1..Len(keys) |-> <<keys[k], m[keys[k]]>>]

\* Analysis::live_stats_by_kind; kindOrder is the iteration order of the
\* by_kind map, ties the order the sort leaves equal keys in
live_stats_by_kind(a, n, kindOrder, ties) ==
    LET g == a.dominated_subgraph
        st == by_kind([k \in 1..node_count(g) |->
                          <<Weight(g, k - 1), stats(Weight(g, k - 1))>>])
    IN  largest_and_rest(Iter(st, kindOrder), n, ties)

\* Analysis::retained_stats_by_kind
retained_stats_by_kind(a, n, kindOrder, ties) ==
    LET g == a.dominated_subgraph
        st == by_kind([k \in 1..node_count(g) |->
                          <<Weight(g, k - 1), a.subtree_sizes[k - 1]>>])
    IN  largest_and_rest(Iter(st, kindOrder), n, ties)

\* Analysis::unreachable_stats_by_kind
unreachable_stats_by_kind(a, n, kindOrder, ties) ==
    LET st == by_kind([k \in 1..Len(a.rest) |-> <<a.rest[k], stats(a.rest[k])>>])
    IN  largest_and_rest(Iter(st, kindOrder), n, ties)

\* Analysis::dominator_subtree_stats; sizesOrder is the iteration order of
\* subtree_sizes
dominator_subtree_stats(a, n, sizesOrder, ties) ==
    LET r == largest_and_rest(Iter(a.subtree_sizes, sizesOrder), n, ties)
    IN  [largest |-> [k \in 1..Len(r.largest) |->
                         <<Weight(a.dominated_subgraph, r.largest[k][1]), r.largest[k][2]>>],
         rest |-> r.rest]

-----------------------------------------------------------------------------
(* petgraph, as used by main.rs *)

\* Graph::remove_edge on edges that carry the stamp of their insertion:
\* Vec::swap_remove puts the last edge in the place of the removed one
SwapRemove(seq, k) ==
    IF k = Len(seq) THEN Front(seq) ELSE [Front(seq) EXCEPT ![k] = Last(seq)]

\* The loop of Graph::remove_node over the edge list of node a in direction
\* d (1 outgoing, 2 incoming): the head of the list is the edge added last
RECURSIVE RemoveEdgesOf(_, _, _)
RemoveEdgesOf(edges, a, d) ==
    LET mine == {k \in 1..Len(edges) : edges[k][d] = a}
    IN  IF mine = {} THEN edges
        ELSE LET head == CHOOSE k \in mine : \A j \in mine : edges[j][3] <= edges[k][3]
             IN  RemoveEdgesOf(SwapRemove(edges, head), a, d)

\* Graph::remove_node(a) on [nodes, edges] with stamped edges: the edges of a
\* are removed, the last node takes index a and its edges are redirected
remove_node(g, a) ==
    LET e1 == RemoveEdgesOf(RemoveEdgesOf(g.edges, a, 1), a, 2)
        old_index == Len(g.nodes) - 1
        moved(i) == IF i = old_index THEN a ELSE i
    IN  [nodes |-> SwapRemove(g.nodes, a + 1),
         edges |-> [k \in 1..Len(e1) |-> <<moved(e1[k][1]), moved(e1[k][2]), e1[k][3]>>]]

\* Graph::retain_nodes: for index in self.node_indices().rev(), the nodes the
\* closure rejects are removed; Keep is the set of indices the closure accepts
RECURSIVE RetainLoop(_, _, _)
RetainLoop(g, Keep, index) ==
    IF index < 0 THEN g
    ELSE RetainLoop(IF index \in Keep THEN g ELSE remove_node(g, index), Keep, index - 1)

retain_nodes(g, Keep) ==
    LET stamped == [nodes |-> g.nodes,
                    edges |-> [k \in 1..Len(g.edges) |-> <<g.edges[k][1], g.edges[k][2], k>>]]
        r == RetainLoop(stamped, Keep, node_count(g) - 1)
    IN  [nodes |-> r.nodes,
         edges |-> [k \in 1..Len(r.edges) |-> <<r.edges[k][1], r.edges[k][2]>>]]

\* Dominators::dominators(n): n and the chain of its immediate dominators up
\* to the root, or None when n is not reachable from the root; doms is the
\* result of simple_fast
RECURSIVE DominatorChain(_, _)
DominatorChain(doms, n) ==
    IF doms[n] = None THEN {n} ELSE {n} \cup DominatorChain(doms, doms[n])

-----------------------------------------------------------------------------
(* main.rs *)

\* graph.node_indices().find(|i| graph.node_weight(*i).unwrap().address == address)
FindAddress(g, address) ==
    LET found == {i \in node_indices(g) : Weight(g, i).address = address}
    IN  IF found = {} THEN None ELSE CHOOSE i \in found : \A j \in found : i <= j

\* subgraph_dominated_by taking the whole graph when the address is not found
subgraph_dominated_by_OrWholeGraph(g, root, dominators, address) ==
    LET subtree_root == FindAddress(g, address)
    IN  IF subtree_root = None
        THEN [panic |-> "", root |-> root, graph |-> g]
        ELSE LET Keep == {n \in node_indices(g) :
                             /\ n = root \/ dominators[n] # None
                             /\ subtree_root \in DominatorChain(dominators, n)}
                 sub == retain_nodes(g, Keep)
             IN  [panic |-> "", root |-> FindAddress(sub, address), graph |-> sub]

\* subgraph_dominated_by retaining only the subtree root and the nodes it
\* dominates immediately
subgraph_dominated_by_ImmediateOnly(g, root, dominators, address) ==
    LET subtree_root == FindAddress(g, address)
        Keep == {n \in node_indices(g) :
                    /\ n = root \/ dominators[n] # None
                    /\ n = subtree_root \/ dominators[n] = subtree_root}
        sub == retain_nodes(g, Keep)
        new_root == FindAddress(sub, address)
    IN  IF subtree_root = None
        THEN [panic |-> "Given subtree root address not found",
              root |-> None, graph |-> EmptyGraph]
        ELSE IF new_root = None
        THEN [panic |-> "called Option::unwrap() on a None value",
              root |-> None, graph |-> EmptyGraph]
        ELSE [panic |-> "", root |-> new_root, graph |-> sub]

\* subgraph_dominated_by; the result is [panic, root, graph]
subgraph_dominated_by(g, root, dominators, address) ==
    LET subtree_root == FindAddress(g, address)
        Keep == {n \in node_indices(g) :
                    /\ n = root \/ dominators[n] # None
                    /\ subtree_root \in DominatorChain(dominators, n)}
        sub == retain_nodes(g, Keep)
        new_root == FindAddress(sub, address)
    IN  IF subtree_root = None
        THEN [panic |-> "Given subtree root address not found",
              root |-> None, graph |-> EmptyGraph]
        ELSE IF new_root = None
        THEN [panic |-> "called Option::unwrap() on a None value",
              root |-> None, graph |-> EmptyGraph]
        ELSE [panic |-> "", root |-> new_root, graph |-> sub]

\* filter_and_find_dominators; subtree_root is an address or None. The result
\* is [panic, root, graph, dominators], dominators being the immediate
\* dominator of every node that has one.
filter_and_find_dominators(root, g, subtree_root) ==
    LET dominators == simple_fast(g, root)
        defined(gr, d) == [i \in {j \in node_indices(gr) : d[j] # None} |-> d[i]]
    IN  IF subtree_root # None
        THEN LET r == subgraph_dominated_by(g, root, dominators, subtree_root)
             IN  IF r.panic # ""
                 THEN [panic |-> r.panic, root |-> None, graph |-> EmptyGraph,
                       dominators |-> EmptyMap]
                 ELSE [panic |-> "", root |-> r.root, graph |-> r.graph,
                       dominators |-> defined(r.graph, simple_fast(r.graph, r.root))]
        ELSE [panic |-> "", root |-> root, graph |-> g, dominators |-> defined(g, dominators)]

-----------------------------------------------------------------------------
(* parse.rs *)

\* A string is the sequence of its characters, a character is its Unicode
\* scalar value: "0x18" is <<48, 120, 49, 56>>.

\* char::to_digit(16), -1 for None: 0..9, a..f and A..F
to_digit(c) ==
    IF c \in 48..57 THEN c - 48
    ELSE IF c \in 97..102 THEN c - 97 + 10
    ELSE IF c \in 65..70 THEN c - 65 + 10
    ELSE -1

\* result.checked_mul(16) fails in the digit loop at position k: the value
\* folded from digits[1..k-1] is at least 16^15 = 2^64 / 16, that is, a digit
\* other than 0 lies 16 places or more before position k (usize of 64 bits)
MulOverflows(digits, k) == \E j \in 1..(k - 16) : to_digit(digits[j]) # 0

\* The digit loop of usize::from_str_radix(_, 16), started with k = 1 and
\* acc = 0; the result is [ok, value]. A character that is no digit gives
\* Err(InvalidDigit), a value that does not fit in usize Err(PosOverflow).
RECURSIVE FoldDigits(_, _, _)
FoldDigits(digits, k, acc) ==
    IF k > Len(digits) THEN [ok |-> TRUE, value |-> acc]
    ELSE IF to_digit(digits[k]) = -1 THEN [ok |-> FALSE, value |-> 0]
    ELSE IF MulOverflows(digits, k) THEN [ok |-> FALSE, value |-> 0]
    ELSE FoldDigits(digits, k + 1, acc * 16 + to_digit(digits[k]))

\* usize::from_str_radix(src, 16): empty input and a lone sign (+ is 43, - is
\* 45) are errors, a leading + is skipped
from_str_radix(src) ==
    IF src = <<>> THEN [ok |-> FALSE, value |-> 0]
    ELSE IF Len(src) = 1 /\ src[1] \in {43, 45} THEN [ok |-> FALSE, value |-> 0]
    ELSE IF src[1] = 43 THEN FoldDigits(Tail(src), 1, 0)
    ELSE FoldDigits(src, 1, 0)

\* char::len_utf8: the number of bytes of a character in a str
len_utf8(c) == IF c < 128 THEN 1 ELSE IF c < 2048 THEN 2 ELSE IF c < 65536 THEN 3 ELSE 4

\* The byte index at which the character s[k] starts; s.len() for k = Len(s) + 1
RECURSIVE ByteIndex(_, _)
ByteIndex(s, k) == IF k = 1 THEN 0 ELSE ByteIndex(s, k - 1) + len_utf8(s[k - 1])

\* The slice &s[begin..] by byte index: [panic, str]. It panics when begin is
\* beyond the end of s and when it falls inside a character.
SliceFrom(s, begin) ==
    IF begin > ByteIndex(s, Len(s) + 1)
    THEN [panic |-> "byte index 2 is out of bounds", str |-> <<>>]
    ELSE IF \A k \in 1..(Len(s) + 1) : ByteIndex(s, k) # begin
    THEN [panic |-> "byte index 2 is not a char boundary", str |-> <<>>]
    ELSE [panic |-> "",
          str |-> SubSeq(s, CHOOSE k \in 1..(Len(s) + 1) : ByteIndex(s, k) = begin, Len(s))]

\* parse_address: usize::from_str_radix(&addr[2..], 16); the result is
\* [panic, ok, value]
parse_address(addr) ==
    LET slice == SliceFrom(addr, 2)
    IN  IF slice.panic # "" THEN [panic |-> slice.panic, ok |-> FALSE, value |-> 0]
        ELSE [panic |-> ""] @@ from_str_radix(slice.str)

\* self.references.iter().flat_map(|r| parse_address(r.as_str()).ok()).collect();
\* acc is [panic, refs]
RECURSIVE ParseReferences(_, _, _)
ParseReferences(refs, k, acc) ==
    IF k > Len(refs) \/ acc.panic # "" THEN acc
    ELSE LET r == parse_address(refs[k])
         IN  ParseReferences(refs, k + 1,
                             IF r.panic # "" THEN [acc EXCEPT !.panic = r.panic]
                             ELSE IF r.ok THEN [acc EXCEPT !.refs = Append(@, r.value)]
                             ELSE acc)

\* char::is_control: the general category Cc, U+0000..U+001F and
\* U+007F..U+009F
is_control(c) == c \in 0..31 \/ c \in 127..159

\* The characters of a STRING label: the first 40 characters of the value
\* with the control characters dropped and the backslash (92) replaced by the
\* small reverse solidus U+FE68 (65128)
LabelPrefix(v) ==
    LET head == SubSeq(v, 1, Min(40, Len(v)))
        kept == SelectSeq(head, LAMBDA c : ~is_control(c))
    IN  [k \in 1..Len(kept) |-> IF kept[k] = 92 THEN 65128 ELSE kept[k]]

\* The label match of Line::parse: [none, label]; none tells that a ? operator
\* made Line::parse return None
LineLabel(line, address, class_name_only) ==
    LET kind == line.object_type
        some(l) == [none |-> FALSE, label |-> <<l>>]
        nolabel == [none |-> FALSE, label |-> <<>>]
        returnNone == [none |-> TRUE, label |-> <<>>]
    IN  IF ~class_name_only
        THEN IF kind \in {"CLASS", "MODULE", "ICLASS"}
             THEN IF line.name = <<>> THEN nolabel
                  ELSE some(<<line.name[1], address, kind>>)
             ELSE IF kind = "ARRAY"
             THEN IF line.length = <<>> THEN returnNone
                  ELSE some(<<"Array", address, "len", line.length[1]>>)
             ELSE IF kind = "HASH"
             THEN IF line.size = <<>> THEN returnNone
                  ELSE some(<<"Hash", address, "size", line.size[1]>>)
             ELSE IF kind = "STRING"
             THEN IF line.value = <<>> THEN nolabel
                  ELSE some(<<"String", address, LabelPrefix(line.value[1]),
                              IF Len(line.value[1]) >= 42 THEN <<8230>> ELSE <<>>>>)
             ELSE nolabel
        ELSE IF kind \in {"CLASS", "MODULE", "ICLASS"}
             THEN IF line.name = <<>> THEN nolabel ELSE some(<<line.name[1], kind>>)
             ELSE IF kind = "ARRAY" THEN some(<<"Array">>)
             ELSE IF kind = "HASH" THEN some(<<"Hash">>)
             ELSE IF kind = "STRING" THEN some(<<"String">>)
             ELSE nolabel

\* Line::parse; the result is [panic, none, object, references, module, name],
\* none for the Option being None
LineParse(line, class_name_only) ==
    LET a == IF line.address = <<>> THEN [panic |-> "", ok |-> FALSE, value |-> 0]
             ELSE parse_address(line.address[1])
        address == IF a.ok THEN a.value ELSE 0
        bytes == IF line.memsize = <<>> THEN 0 ELSE line.memsize[1]
        kind == line.object_type
        l == LineLabel(line, address, class_name_only)
        refs == ParseReferences(line.references, 1, [panic |-> "", refs |-> <<>>])
        c == IF line.class = <<>> THEN [panic |-> "", ok |-> FALSE, value |-> 0]
             ELSE parse_address(line.class[1])
        failed(msg) == [panic |-> msg, none |-> TRUE, object |-> root_object,
                        references |-> <<>>, module |-> <<>>, name |-> <<>>]
    IN  IF a.panic # "" THEN failed(a.panic)
        ELSE IF address = 0 /\ kind # "ROOT" THEN failed("")
        ELSE IF l.none THEN failed("")
        ELSE IF refs.panic # "" THEN failed(refs.panic)
        ELSE IF c.panic # "" THEN failed(c.panic)
        ELSE [panic |-> "", none |-> FALSE,
              object |-> Object(address, bytes, kind, l.label),
              references |-> refs.refs,
              module |-> IF c.ok THEN <<c.value>> ELSE <<>>,
              name |-> line.name]

\* Graph::add_node and Graph::add_edge
add_node(g, obj) == [g EXCEPT !.nodes = Append(@, obj)]

add_edge(g, a, b) == [g EXCEPT !.edges = Append(@, <<a, b>>)]

\* The state of parse before the first line is read: the synthetic root is
\* node 0
ParserStart ==
    [panic |-> "",
     graph |-> add_node(EmptyGraph, root_object),
     indices |-> Insert(EmptyMap, root_object.address, 0),
     references |-> Insert(EmptyMap, root_object.address, <<>>),
     instances |-> EmptyMap,
     names |-> EmptyMap,
     line |-> 0]

\* The body of the while loop of parse for one line
read_line(p, line, class_name_only) ==
    LET parsed == LineParse(line, class_name_only)
        read == [p EXCEPT !.line = @ + 1]
        address == parsed.object.address
    IN  IF parsed.panic # "" THEN [read EXCEPT !.panic = parsed.panic]
        ELSE IF parsed.none THEN [read EXCEPT !.panic = "expect: the line"]
        ELSE IF is_root(parsed.object)
        THEN [read EXCEPT !.references[root_object.address] = @ \o parsed.references]
        ELSE [read EXCEPT
                 !.graph = add_node(@, parsed.object),
                 !.indices = Insert(@, address, node_count(p.graph)),
                 !.references = IF parsed.references # <<>>
                                THEN Insert(@, address, parsed.references) ELSE @,
                 !.instances = IF parsed.module # <<>>
                               THEN Insert(@, address, parsed.module[1]) ELSE @,
                 !.names = IF parsed.name # <<>>
                           THEN Insert(@, address, parsed.name[1]) ELSE @]

\* for s in successors { if let Some(j) = indices.get(&s) { graph.add_edge(*i, *j, ..) } }
RECURSIVE AddSuccessors(_, _, _, _, _)
AddSuccessors(g, indices, i, successors, k) ==
    IF k > Len(successors) THEN g
    ELSE AddSuccessors(IF successors[k] \in DOMAIN indices
                       THEN add_edge(g, i, indices[successors[k]]) ELSE g,
                       indices, i, successors, k + 1)

\* for (node, successors) in references; order is the order in which the
\* HashMap yields its keys
RECURSIVE MaterializeEdges(_, _, _, _, _)
MaterializeEdges(g, indices, references, order, k) ==
    IF k > Len(order) THEN g
    ELSE MaterializeEdges(AddSuccessors(g, indices, indices[order[k]],
                                        references[order[k]], 1),
                          indices, references, order, k + 1)

\* for obj in graph.node_weights_mut(): the kind of an instance becomes the
\* name recorded for its class
RewriteKinds(g, instances, names) ==
    [g EXCEPT !.nodes =
        [k \in 1..Len(g.nodes) |->
            LET obj == g.nodes[k]
            IN  IF obj.address \in DOMAIN instances /\ instances[obj.address] \in DOMAIN names
                THEN [obj EXCEPT !.kind = names[instances[obj.address]]]
                ELSE obj]]

\* The part of parse after the while loop; the result is the parser with its
\* final graph
finish_parse(p, order) ==
    [p EXCEPT !.graph = RewriteKinds(MaterializeEdges(p.graph, p.indices, p.references,
                                                      order, 1),
                                     p.instances, p.names)]

\* The while loop of parse over the lines that are left
RECURSIVE ReadLines(_, _, _)
ReadLines(p, lines, class_name_only) ==
    IF p.line >= Len(lines) \/ p.panic # "" THEN p
    ELSE ReadLines(read_line(p, lines[p.line + 1], class_name_only), lines, class_name_only)

\* parse; order is the order in which the references map yields its keys.
\* The result is the parser at the return or at the panic.
parse(lines, class_name_only, order) ==
    LET p == ReadLines(ParserStart, lines, class_name_only)
    IN  IF p.panic # "" THEN p ELSE finish_parse(p, order)

-----------------------------------------------------------------------------
(* Inputs *)

Nodes == 0..(NumNodes - 1)

\* Addresses are unique and differ from the indices; the root has address 0
\* (Object::root)
Address(i) == IF i = 0 THEN 0 ELSE 16 * (NumNodes - i) + 8

\* Self sizes: distinct powers of two with an empty root, or all equal
BytesProfiles ==
    {[i \in Nodes |-> IF i = 0 THEN 0 ELSE 2 ^ (i - 1)],
     [i \in Nodes |-> 1]}

\* Edge lists of at most n edges, grouped by source as the graph builder adds
\* them (one source node at a time); self-loops and multi-edges included
RECURSIVE EdgeLists(_)
EdgeLists(n) ==
    IF n = 0 THEN {<<>>}
    ELSE LET prev == EdgeLists(n - 1)
             full == {s \in prev : Len(s) = n - 1}
         IN  prev \cup
             {Append(x[1], x[2]) :
                 x \in {y \in full \X (Nodes \X Nodes) :
                           y[1] = <<>> \/ Last(y[1])[1] <= y[2][1]}}

\* Kinds: "ROOT" for the root (Object::root), two kinds for the other nodes
Kind(i) == IF i = 0 THEN "ROOT" ELSE IF i % 2 = 1 THEN "String" ELSE "Array"

InputGraphs ==
    {[nodes |-> [k \in 1..NumNodes |-> Object(Address(k - 1), b[k - 1], Kind(k - 1),
                                             IF k = 1 THEN <<"root">> ELSE <<>>)],
      edges |-> e] :
        b \in BytesProfiles, e \in EdgeLists(MaxEdges)}

\* relevance_threshold values 0.0, 0.5, 1.0 and 2.0, as <<m, e>> for m * 2^-e
Thresholds == {<<0, 0>>, <<1, 1>>, <<1, 0>>, <<2, 0>>}

\* The ascending enumeration of a finite set of integers
RECURSIVE Ascending(_)
Ascending(S) ==
    IF S = {} THEN <<>>
    ELSE LET m == CHOOSE x \in S : \A y \in S : x <= y
         IN  <<m>> \o Ascending(S \ {m})

NoTree == [nodes |-> <<>>, postorder |-> <<>>, stack |-> <<>>, panic |-> "", debug |-> FALSE]

NoAnalysis ==
    [panic |-> "", root |-> None, dominated_subgraph |-> EmptyGraph, rest |-> <<>>,
     dominators |-> EmptyMap, subtree_sizes |-> EmptyMap]

NoSubgraph == [panic |-> "", nodes |-> <<>>, edges |-> <<>>]

\* Bound of the top_n argument of the ranked queries
MaxTopN == 2

\* The kinds of the input graphs
Kinds == {Kind(i) : i \in Nodes}

NoTable == [largest |-> <<>>, rest |-> StatsDefault]

NoRanked == [live |-> NoTable, retained |-> NoTable, unreachable |-> NoTable,
             subtree |-> NoTable]

NoFiltered == [panic |-> "", root |-> None, graph |-> EmptyGraph, dominators |-> EmptyMap]

\* An address that no node of the input graphs carries
MissingAddress == 16 * NumNodes + 8

NoReader == [lines |-> <<>>, class_name_only |-> FALSE]

\* Bound of the number of lines of a record stream
MaxLines == 3

\* Address strings: two object addresses, the address of no record, the
\* root's address, a string that is not hexadecimal and a string too short
\* for its prefix
Addr1 == <<48, 120, 49, 56>>

Addr2 == <<48, 120, 50, 56>>

AddrMissing == <<48, 120, 51, 56>>

AddrZero == <<48, 120, 48>>

AddrNotHex == <<48, 120, 103>>

AddrShort == <<48>>

\* A deserialized Line with the optional fields other than address absent
Line(address, object_type, references) ==
    [address |-> address, memsize |-> <<>>, references |-> references,
     object_type |-> object_type, class |-> <<>>, name |-> <<>>,
     length |-> <<>>, size |-> <<>>, value |-> <<>>]

\* The records the streams are made of
Lines ==
    {Line(<<>>, "ROOT", <<Addr1>>),
     Line(<<>>, "ROOT", <<Addr2, Addr2>>),
     Line(<<Addr1>>, "ROOT", <<Addr2>>),
     [Line(<<Addr1>>, "OBJECT", <<Addr2>>) EXCEPT !.memsize = <<1>>, !.class = <<Addr2>>],
     [Line(<<Addr1>>, "OBJECT", <<>>) EXCEPT !.memsize = <<2>>],
     [Line(<<Addr2>>, "OBJECT", <<Addr1, AddrMissing, AddrNotHex>>) EXCEPT !.memsize = <<4>>],
     Line(<<Addr2>>, "OBJECT", <<AddrZero>>),
     Line(<<>>, "OBJECT", <<Addr1>>),
     Line(<<AddrNotHex>>, "OBJECT", <<>>),
     Line(<<AddrShort>>, "OBJECT", <<>>),
     Line(<<Addr1>>, "ARRAY", <<Addr2>>),
     [Line(<<Addr2>>, "ARRAY", <<>>) EXCEPT !.length = <<1>>],
     Line(<<Addr2>>, "HASH", <<>>),
     [Line(<<Addr2>>, "CLASS", <<>>) EXCEPT !.name = <<"Foo">>],
     [Line(<<Addr1>>, "CLASS", <<>>) EXCEPT !.name = <<"Bar">>, !.class = <<Addr2>>],
     [Line(<<Addr2>>, "CLASS", <<>>) EXCEPT !.name = <<"Foo">>, !.class = <<Addr1>>]}

Streams == UNION {[1..n -> Lines] : n \in 0..MaxLines}

NoParser == [panic |-> "", graph |-> EmptyGraph, indices |-> EmptyMap,
             references |-> EmptyMap, instances |-> EmptyMap, names |-> EmptyMap,
             line |-> 0]

\* No call of find_addrs_of_filtered_edges yet
NoFound == [root |-> None, all |-> FALSE, order |-> <<>>, result |-> EmptyMap]

\* The engine before DominatorTree::from_graph is called
NoEngine == EngineStart(<<>>, FALSE)

\* The input graphs of the engine: the weights play no part in it
EngineGraphs == {g \in InputGraphs : \A k \in 1..Len(g.nodes) : g.nodes[k].bytes = 1}

-----------------------------------------------------------------------------
(* State machine *)

Init ==
    /\ graph \in InputGraphs
    /\ pc = "input"
    /\ domtree = NoTree
    /\ chosen_root = None
    /\ analysis = NoAnalysis
    /\ relevance_threshold = <<0, 0>>
    /\ subgraph = NoSubgraph
    /\ top_n = 0
    /\ ranked = NoRanked
    /\ given_root = None
    /\ filtered = NoFiltered
    /\ reader = NoReader
    /\ parser = NoParser
    /\ engine = NoEngine
    /\ filter_call = NoFound

\* DominatorTree::from_graph on the adjacency list of the graph, in a build
\* with or without debug assertions
FromGraph ==
    /\ pc = "input"
    /\ \E debug \in BOOLEAN :
           domtree' = from_graph(AdjList(graph), debug) @@ [debug |-> debug]
    /\ pc' = "domtree"
    /\ UNCHANGED <<graph, chosen_root, analysis, relevance_threshold, subgraph>>
    /\ UNCHANGED <<rankVars, mainVars, parseVars, engVars, filterVars>>

\* analyze(orig_root, subgraph_root, graph): orig_root is the index the graph
\* builder returns, the first node added
Analyze ==
    /\ pc = "input"
    /\ \E s \in node_indices(graph), debug \in BOOLEAN :
           \E order \in Perms(DOMAIN find_dominators(ROOT, graph)) :
               /\ chosen_root' = s
               /\ analysis' = analyze(ROOT, s, graph, order, debug)
    /\ pc' = "analyzed"
    /\ UNCHANGED <<graph, domtree, relevance_threshold, subgraph>>
    /\ UNCHANGED <<rankVars, mainVars, parseVars, engVars, filterVars>>

\* Analysis::relevant_dominator_subgraph(relevance_threshold): subtree_sizes
\* and old_to_new are two hash maps, each iterated in an order of its own
RelevantDominatorSubgraph ==
    /\ pc = "analyzed"
    /\ analysis.panic = ""
    /\ \E t \in Thresholds, debug \in BOOLEAN :
           \E sizesOrder \in Perms(DOMAIN analysis.subtree_sizes),
              edgeOrder \in Perms(DOMAIN analysis.subtree_sizes) :
               /\ relevance_threshold' = t
               /\ subgraph' = relevant_dominator_subgraph(analysis, t[1], t[2],
                                                          sizesOrder, edgeOrder, debug)
    /\ pc' = "pruned"
    /\ UNCHANGED <<graph, domtree, chosen_root, analysis>>
    /\ UNCHANGED <<rankVars, mainVars, parseVars, engVars, filterVars>>

\* The four ranked queries of the Analysis with the same top_n, run once or
\* again: live_stats_by_kind, retained_stats_by_kind, unreachable_stats_by_kind
\* and dominator_subtree_stats. Every query iterates a hash map of its own,
\* in an order of its own, and every run draws the orders anew.
RankedQueries ==
    /\ pc \in {"analyzed", "ranked"}
    /\ analysis.panic = ""
    /\ \E n \in 0..MaxTopN :
           /\ pc = "ranked" => n = top_n
           /\ top_n' = n
           /\ \E live \in {live_stats_by_kind(analysis, n, kindOrder, ties) :
                                 kindOrder \in Perms(Kinds), ties \in TieOrders(NumNodes)},
                 retained \in {retained_stats_by_kind(analysis, n, kindOrder, ties) :
                                 kindOrder \in Perms(Kinds), ties \in TieOrders(NumNodes)},
                 unreachable \in {unreachable_stats_by_kind(analysis, n, kindOrder, ties) :
                                 kindOrder \in Perms(Kinds), ties \in TieOrders(NumNodes)},
                 subtree \in {dominator_subtree_stats(analysis, n, sizesOrder, ties) :
                                 sizesOrder \in Perms(DOMAIN analysis.subtree_sizes),
                                 ties \in TieOrders(NumNodes)} :
                  ranked' = [live |-> live, retained |-> retained,
                             unreachable |-> unreachable, subtree |-> subtree]
    /\ pc' = "ranked"
    /\ UNCHANGED <<graph, domtree, chosen_root, analysis, relevance_threshold, subgraph>>
    /\ UNCHANGED <<mainVars, parseVars, engVars, filterVars>>

Next == FromGraph \/ Analyze \/ RelevantDominatorSubgraph

Spec == Init /\ [][Next]_vars

\* main.rs: filter_and_find_dominators on the parsed graph with the address
\* given by --root, if any; the address may match no node
FilterAndFindDominators ==
    /\ pc = "input"
    /\ \E address \in {None, MissingAddress}
                        \cup {Weight(graph, i).address : i \in node_indices(graph)} :
           /\ given_root' = address
           /\ filtered' = filter_and_find_dominators(ROOT, graph, address)
    /\ pc' = "filtered"
    /\ UNCHANGED <<graph, domtree, chosen_root, analysis, relevance_threshold, subgraph>>
    /\ UNCHANGED <<rankVars, parseVars, engVars, filterVars>>

NextMain == FilterAndFindDominators

SpecMain == Init /\ [][NextMain]_vars

\* parse on a record stream, with either setting of class_name_only
InitParse ==
    /\ reader \in {[lines |-> l, class_name_only |-> f] : l \in Streams, f \in BOOLEAN}
    /\ parser = ParserStart
    /\ pc = "reading"
    /\ graph = EmptyGraph
    /\ domtree = NoTree
    /\ chosen_root = None
    /\ analysis = NoAnalysis
    /\ relevance_threshold = <<0, 0>>
    /\ subgraph = NoSubgraph
    /\ top_n = 0
    /\ ranked = NoRanked
    /\ given_root = None
    /\ filtered = NoFiltered
    /\ engine = NoEngine
    /\ filter_call = NoFound

\* One turn of the while loop of parse: the next line is read and parsed; a
\* panic ends the run
ReadLine ==
    /\ pc = "reading"
    /\ parser.line < Len(reader.lines)
    /\ parser' = read_line(parser, reader.lines[parser.line + 1], reader.class_name_only)
    /\ pc' = IF parser'.panic # "" THEN "panicked" ELSE "reading"
    /\ UNCHANGED <<graph, domtree, chosen_root, analysis, relevance_threshold, subgraph>>
    /\ UNCHANGED <<rankVars, mainVars, reader, engVars, filterVars>>

\* The end of the input: the edges are materialized in the iteration order
\* of the references map and the kinds are rewritten
FinishParse ==
    /\ pc = "reading"
    /\ parser.line = Len(reader.lines)
    /\ \E order \in Perms(DOMAIN parser.references) :
           parser' = finish_parse(parser, order)
    /\ pc' = "parsed"
    /\ UNCHANGED <<graph, domtree, chosen_root, analysis, relevance_threshold, subgraph>>
    /\ UNCHANGED <<rankVars, mainVars, reader, engVars, filterVars>>

NextParse == ReadLine \/ FinishParse

SpecParse == InitParse /\ [][NextParse]_vars

\* The analysis followed by the ranked queries
NextRank == Analyze \/ RankedQueries

SpecRank == Init /\ [][NextRank]_vars

\* DominatorTree::from_graph on the adjacency list of an input graph, in a
\* build with or without debug assertions, one loop turn at a time
InitEngine ==
    /\ graph \in EngineGraphs
    /\ \E debug \in BOOLEAN : engine = EngineStart(AdjList(graph), debug)
    /\ pc = "engine"
    /\ domtree = NoTree
    /\ chosen_root = None
    /\ analysis = NoAnalysis
    /\ relevance_threshold = <<0, 0>>
    /\ subgraph = NoSubgraph
    /\ top_n = 0
    /\ ranked = NoRanked
    /\ given_root = None
    /\ filtered = NoFiltered
    /\ reader = NoReader
    /\ parser = NoParser
    /\ filter_call = NoFound

EngineUnchanged ==
    /\ UNCHANGED <<graph, pc, domtree, chosen_root, analysis, relevance_threshold, subgraph>>
    /\ UNCHANGED <<rankVars, mainVars, parseVars, filterVars>>

\* compute_postorder: one turn of its while loop
PostorderTurn ==
    /\ engine.phase = "postorder"
    /\ engine.stack # <<>>
    /\ engine' = postorder_turn(engine, AdjList(graph))
    /\ EngineUnchanged

\* The stack is empty: compute_postorder returns and compute_domtree starts
DomtreeEntry ==
    /\ engine.phase = "postorder"
    /\ engine.stack = <<>>
    /\ engine' = domtree_entry(engine)
    /\ EngineUnchanged

\* A pass of compute_domtree calls compute_idom for its next node
IdomEntry ==
    /\ engine.phase = "pass"
    /\ engine.k <= Len(engine.postorder)
    /\ engine' = idom_entry(engine)
    /\ EngineUnchanged

\* compute_idom: one turn of its for loop
FoldTurn ==
    /\ engine.phase = "fold"
    /\ engine' = fold_turn(engine)
    /\ EngineUnchanged

\* common_dominator: one turn of its loop
WalkTurn ==
    /\ engine.phase = "walk"
    /\ engine' = walk_turn(engine)
    /\ EngineUnchanged

\* A pass of compute_domtree is over
PassEnd ==
    /\ engine.phase = "pass"
    /\ engine.k > Len(engine.postorder)
    /\ engine' = pass_end(engine)
    /\ EngineUnchanged

NextEngine == PostorderTurn \/ DomtreeEntry \/ IdomEntry \/ FoldTurn \/ WalkTurn \/ PassEnd

SpecEngine == InitEngine /\ [][NextEngine]_vars

\* main.rs: filter_and_find_dominators on the graph that was analyzed, with
\* the address of the subgraph root of the analysis
FilterSameRoot ==
    /\ pc = "analyzed"
    /\ given_root' = Weight(graph, chosen_root).address
    /\ filtered' = filter_and_find_dominators(ROOT, graph, Weight(graph, chosen_root).address)
    /\ pc' = "compared"
    /\ UNCHANGED <<graph, domtree, chosen_root, analysis, relevance_threshold, subgraph>>
    /\ UNCHANGED <<rankVars, parseVars, engVars, filterVars>>

NextCompare == Analyze \/ FilterSameRoot

SpecCompare == Init /\ [][NextCompare]_vars

\* find_addrs_of_filtered_edges as extract_dominated_subgraph calls it for a
\* subgraph root: with the nodes reachable from the root, or with all the
\* nodes of the graph (the call of its debug assertion), the entries of the
\* idom map coming in any order
FindAddrsOfFilteredEdges ==
    /\ pc = "input"
    /\ \E s \in node_indices(graph) \ {ROOT}, all \in BOOLEAN :
           \E order \in Perms(DOMAIN find_dominators(ROOT, graph)) :
               filter_call' = [root |-> s, all |-> all, order |-> order,
                               result |->
                                   find_addrs_of_filtered_edges(
                                       s,
                                       IF all THEN node_indices(graph)
                                       ELSE find_reachable_indices(s, graph),
                                       find_dominators(ROOT, graph), graph, order)]
    /\ pc' = "found"
    /\ UNCHANGED <<graph, domtree, chosen_root, analysis, relevance_threshold, subgraph>>
    /\ UNCHANGED <<rankVars, mainVars, parseVars, engVars>>

NextFilter == FindAddrsOfFilteredEdges

SpecFilter == Init /\ [][NextFilter]_vars

\* The loops of the engine run on: the program is sequential, so the turn
\* that is enabled is taken
SpecEngineFair == SpecEngine /\ WF_vars(NextEngine)

-----------------------------------------------------------------------------
(* Reference notions the properties are stated with: reachability and      *)
(* dominance by their definitions over paths, not by the engine.           *)

Successors(g, S) == {e[2] : e \in {x \in Range(g.edges) : x[1] \in S}}

\* The nodes reachable from the nodes of S by paths that avoid the nodes of X
RECURSIVE Closure(_, _, _)
Closure(g, S, X) ==
    LET S2 == (S \cup Successors(g, S)) \ X
    IN  IF S2 = S THEN S ELSE Closure(g, S2, X)

Reachable(g, r) == Closure(g, {r}, {})

\* d dominates v: v is reachable from r and every path from r to v holds d
Dominates(g, r, d, v) ==
    /\ v \in Reachable(g, r)
    /\ d = v \/ v \notin Closure(g, {r} \ {d}, {d})

StrictDominators(g, r, v) == {d \in node_indices(g) \ {v} : Dominates(g, r, d, v)}

\* d is the immediate dominator of v: the strict dominator of v that every
\* other strict dominator of v dominates
IsIdom(g, r, d, v) ==
    /\ d \in StrictDominators(g, r, v)
    /\ \A e \in StrictDominators(g, r, v) : Dominates(g, r, e, d)

\* The nodes strictly dominated by s, that is, the nodes whose chain of
\* immediate dominators passes through s
DominatedBy(g, r, s) == {v \in node_indices(g) \ {s} : Dominates(g, r, s, v)}

AddrOf(g, S) == {Weight(g, i).address : i \in S}

NodeAddrs(g) == {g.nodes[k].address : k \in 1..Len(g.nodes)}

SeqAddrs(objs) == {objs[k].address : k \in 1..Len(objs)}

RECURSIVE SumStats(_, _)
SumStats(g, S) ==
    IF S = {} THEN StatsDefault
    ELSE LET i == CHOOSE x \in S : TRUE
         IN  add(stats(Weight(g, i)), SumStats(g, S \ {i}))

\* The index in the input graph of the node of the reduced graph r with index i
OldIndex(g, r, i) == CHOOSE j \in node_indices(g) : Weight(g, j).address = Weight(r, i).address

WholeMode == pc \in {"analyzed", "pruned"} /\ chosen_root = ROOT

SubtreeMode == pc \in {"analyzed", "pruned"} /\ chosen_root # ROOT

-----------------------------------------------------------------------------
(* Properties *)

\* The engine of dominator.rs in a build with debug assertions: no expect
\* fails and every reachable node other than the root gets its immediate
\* dominator
DebugBuildIdomCorrect ==
    (pc = "domtree" /\ domtree.debug) =>
        /\ domtree.panic = ""
        /\ \A v \in Reachable(graph, ROOT) \ {ROOT} :
               idom(domtree, v) # None /\ IsIdom(graph, ROOT, idom(domtree, v), v)

\* find_dominators gives every reachable node other than the root its
\* immediate dominator
FindDominatorsCorrect ==
    (pc = "analyzed" /\ chosen_root = ROOT) =>
        LET dominators == find_dominators(ROOT, graph)
        IN  /\ DOMAIN dominators = Reachable(graph, ROOT) \ {ROOT}
            /\ \A v \in DOMAIN dominators : IsIdom(graph, ROOT, dominators[v], v)

\* The reduced graph of the analysis and the input-graph indices of its nodes
Reduced == analysis.dominated_subgraph

KeptOld == {OldIndex(graph, Reduced, i) : i \in node_indices(Reduced)}

\* The edges of a graph as a sequence of <<source address, target address>>
AddrEdges(g, edges) ==
    [k \in 1..Len(edges) |-> <<Weight(g, edges[k][1]).address, Weight(g, edges[k][2]).address>>]

\* C1: for every graph, the dominator engine (DominatorTree::from_graph with
\* the root at index 0, and find_dominators) gives every node other than the
\* root that is reachable from the root its immediate dominator: the strict
\* dominator that every other strict dominator of the node dominates.
C1_EngineGivesImmediateDominators ==
    /\ pc = "domtree" =>
           \A v \in Reachable(graph, ROOT) \ {ROOT} :
               /\ domtree.panic = ""
               /\ idom(domtree, v) # None
               /\ IsIdom(graph, ROOT, idom(domtree, v), v)
    /\ (pc = "analyzed" /\ chosen_root = ROOT) =>
           LET dominators == find_dominators(ROOT, graph)
           IN  \A v \in Reachable(graph, ROOT) \ {ROOT} :
                   v \in DOMAIN dominators /\ IsIdom(graph, ROOT, dominators[v], v)

\* C2: in subtree-restriction mode the node set of dominated_subgraph is
\* exactly s together with every node whose chain of immediate dominators
\* passes through s, and rest is exactly the set of nodes reachable from s
\* that are not in that set.
C2_SubtreeRestriction ==
    (pc = "analyzed" /\ chosen_root # ROOT) =>
        LET s == chosen_root
            dominated_by_s == {s} \cup DominatedBy(graph, ROOT, s)
            reachable_from_s == Reachable(graph, s)
        IN  /\ analysis.panic = ""
            /\ NodeAddrs(Reduced) = AddrOf(graph, dominated_by_s)
            /\ node_count(Reduced) = Cardinality(dominated_by_s)
            /\ SeqAddrs(analysis.rest) = AddrOf(graph, reachable_from_s \ dominated_by_s)
            /\ Len(analysis.rest) = Cardinality(reachable_from_s \ dominated_by_s)

C2_Witness ==
    /\ pc = "analyzed" /\ chosen_root # ROOT /\ analysis.panic = ""
    /\ node_count(Reduced) >= 3
    /\ Len(analysis.rest) >= 1

\* C3: in whole-graph mode the node set of dominated_subgraph is exactly the
\* set of nodes reachable from the root (the root plus every node with a
\* defined idom, the set a depth-first search from the root finds), every
\* edge of the input graph between two such nodes is kept, and rest is
\* exactly the set of unreachable nodes.
C3_WholeGraph ==
    (pc = "analyzed" /\ chosen_root = ROOT) =>
        LET reach == Reachable(graph, ROOT)
            unreach == node_indices(graph) \ reach
        IN  /\ analysis.panic = ""
            /\ reach = {ROOT} \cup DOMAIN find_dominators(ROOT, graph)
            /\ reach = find_reachable_indices(ROOT, graph)
            /\ NodeAddrs(Reduced) = AddrOf(graph, reach)
            /\ node_count(Reduced) = Cardinality(reach)
            /\ AddrEdges(Reduced, Reduced.edges) =
                   AddrEdges(graph, SelectSeq(graph.edges,
                                              LAMBDA e : e[1] \in reach /\ e[2] \in reach))
            /\ SeqAddrs(analysis.rest) = AddrOf(graph, unreach)
            /\ Len(analysis.rest) = Cardinality(unreach)

C3_Witness ==
    /\ pc = "analyzed" /\ chosen_root = ROOT /\ analysis.panic = ""
    /\ Len(analysis.rest) >= 1
    /\ edge_count(Reduced) >= 2
    /\ edge_count(Reduced) < edge_count(graph)

\* C4: for every node v of dominated_subgraph, subtree_sizes[v] is the sum of
\* (1, bytes) over v itself and every node of dominated_subgraph whose chain
\* of immediate dominators passes through v, in both modes.
C4_SubtreeSizes ==
    pc = "analyzed" =>
        /\ analysis.panic = ""
        /\ DOMAIN analysis.subtree_sizes = node_indices(Reduced)
        /\ \A i \in node_indices(Reduced) :
               LET v == OldIndex(graph, Reduced, i)
               IN  analysis.subtree_sizes[i] =
                       SumStats(graph, {u \in KeptOld : u = v \/ Dominates(graph, ROOT, v, u)})

C4_Witness ==
    /\ pc = "analyzed" /\ chosen_root # ROOT /\ analysis.panic = ""
    /\ \E i \in node_indices(Reduced) :
           /\ i # analysis.root
           /\ analysis.subtree_sizes[i].count >= 2
           /\ analysis.subtree_sizes[analysis.root].count > analysis.subtree_sizes[i].count

\* C5: for every graph and every choice of root, dominated_totals() =
\* subtree_sizes[root] is the sum of the self-stats (count 1, own bytes) of
\* all nodes of dominated_subgraph.
C5_DominatedTotals ==
    pc = "analyzed" =>
        /\ analysis.panic = ""
        /\ dominated_totals(analysis) = SumStats(Reduced, node_indices(Reduced))

C5_Witness ==
    /\ pc = "analyzed" /\ chosen_root # ROOT /\ analysis.panic = ""
    /\ analysis.root # 0
    /\ dominated_totals(analysis).count >= 2
    /\ dominated_totals(analysis).bytes >= 3

\* C6 as stated: for all choices of root, the nodes of dominated_subgraph and
\* the objects of rest are disjoint, and their union (by address) is the set
\* of nodes reachable from the analyzed root.
C6_UnionIsReachable ==
    pc = "analyzed" =>
        /\ NodeAddrs(Reduced) \cap SeqAddrs(analysis.rest) = {}
        /\ NodeAddrs(Reduced) \cup SeqAddrs(analysis.rest) =
               AddrOf(graph, Reachable(graph, chosen_root))

\* C6 amended: the nodes of dominated_subgraph and the objects of rest are
\* disjoint; in subtree mode their union is the set of nodes reachable from
\* the analyzed root; in whole-graph mode dominated_subgraph alone is that
\* set, rest holds the unreachable nodes and the union is the node set of the
\* input graph.
C6_Partition ==
    pc = "analyzed" =>
        /\ analysis.panic = ""
        /\ NodeAddrs(Reduced) \cap SeqAddrs(analysis.rest) = {}
        /\ chosen_root # ROOT =>
               NodeAddrs(Reduced) \cup SeqAddrs(analysis.rest) =
                   AddrOf(graph, Reachable(graph, chosen_root))
        /\ chosen_root = ROOT =>
               /\ NodeAddrs(Reduced) = AddrOf(graph, Reachable(graph, ROOT))
               /\ NodeAddrs(Reduced) \cup SeqAddrs(analysis.rest) = NodeAddrs(graph)

C6_Witness ==
    /\ pc = "analyzed" /\ chosen_root # ROOT /\ analysis.panic = ""
    /\ Len(analysis.rest) >= 1
    /\ node_count(Reduced) >= 2
    /\ node_count(Reduced) + Len(analysis.rest) < node_count(graph)

\* C7: in both modes the dominators map of the Analysis has an entry for
\* every node of dominated_subgraph other than root and none for root, every
\* value of the map is a node of dominated_subgraph, and no lookup of
\* map_indices misses.
C7_DominatorsWithinSubgraph ==
    pc = "analyzed" =>
        /\ analysis.panic = ""
        /\ analysis.root \in node_indices(Reduced)
        /\ Weight(Reduced, analysis.root).address = Weight(graph, chosen_root).address
        /\ DOMAIN analysis.dominators = node_indices(Reduced) \ {analysis.root}
        /\ \A v \in DOMAIN analysis.dominators :
               analysis.dominators[v] \in node_indices(Reduced)

C7_Witness ==
    /\ pc = "analyzed" /\ chosen_root # ROOT /\ analysis.panic = ""
    /\ Cardinality(DOMAIN analysis.dominators) >= 2
    /\ \E v \in DOMAIN analysis.dominators : analysis.dominators[v] # analysis.root

\* C8: the idom mapping is defined exactly on the nodes reachable from the
\* root other than the root: after the dominator computation idom(root) is
\* None and idom(v) is None for every node v not reachable from the root.
C8_IdomDefinedExactlyOnReachable ==
    /\ (pc = "domtree" /\ domtree.panic = "") =>
           \A v \in node_indices(graph) :
               idom(domtree, v) # None <=> v \in Reachable(graph, ROOT) \ {ROOT}
    /\ (pc = "analyzed" /\ chosen_root = ROOT) =>
           DOMAIN find_dominators(ROOT, graph) = Reachable(graph, ROOT) \ {ROOT}

\* The node of the reduced graph that a node of the pruned graph copies
ReducedIndex(obj) ==
    CHOOSE i \in node_indices(Reduced) : Weight(Reduced, i).address = obj.address

\* C9: subtree_sizes is monotonic up the dominator chain: for every non-root
\* node v of dominated_subgraph, subtree_sizes[dominators[v]].bytes >=
\* subtree_sizes[v].bytes; hence in relevant_dominator_subgraph(t) the
\* immediate dominator of every retained non-root node is retained too and
\* the lookup old_to_new[d] never fails.
C9_MonotonicUpTheChain ==
    /\ pc = "analyzed" =>
           \A v \in DOMAIN analysis.dominators :
               analysis.subtree_sizes[analysis.dominators[v]].bytes >=
                   analysis.subtree_sizes[v].bytes
    /\ pc = "pruned" =>
           /\ subgraph.panic = ""
           /\ \A k \in 1..Len(subgraph.nodes) :
                  LET v == ReducedIndex(subgraph.nodes[k])
                  IN  v \in DOMAIN analysis.dominators =>
                          Weight(Reduced, analysis.dominators[v]).address
                              \in SeqAddrs(subgraph.nodes)

C9_Witness ==
    /\ pc = "pruned" /\ subgraph.panic = ""
    /\ relevance_threshold = <<1, 1>>
    /\ Len(subgraph.nodes) >= 2
    /\ Len(subgraph.nodes) < node_count(Reduced)
    /\ \E k \in 1..Len(subgraph.nodes) :
           LET v == ReducedIndex(subgraph.nodes[k])
           IN  v \in DOMAIN analysis.dominators /\ analysis.dominators[v] # analysis.root

\* C10: for every analysis and every threshold, relevant_dominator_subgraph
\* returns a tree: when it has at least one node, its edge count is its node
\* count minus one, the root is among its nodes, and every other node has
\* exactly one incoming edge, from its immediate dominator.
C10_PrunedIsTree ==
    pc = "pruned" =>
        /\ subgraph.panic = ""
        /\ Len(subgraph.nodes) >= 1 =>
               /\ Len(subgraph.edges) = Len(subgraph.nodes) - 1
               /\ Weight(Reduced, analysis.root).address \in SeqAddrs(subgraph.nodes)
               /\ \A k \in 1..Len(subgraph.nodes) :
                      LET v == ReducedIndex(subgraph.nodes[k])
                          incoming == {j \in 1..Len(subgraph.edges) :
                                          subgraph.edges[j][2] = k - 1}
                      IN  IF v = analysis.root THEN incoming = {}
                          ELSE /\ Cardinality(incoming) = 1
                               /\ \A j \in incoming :
                                      subgraph.nodes[subgraph.edges[j][1] + 1].address =
                                          Weight(Reduced, analysis.dominators[v]).address

C10_Witness ==
    /\ pc = "pruned" /\ subgraph.panic = ""
    /\ Len(subgraph.nodes) >= 3
    /\ Len(subgraph.nodes) < node_count(Reduced)
    /\ Len(subgraph.edges) = 2

\* C11: relevant_dominator_subgraph(0.0) contains exactly one node for every
\* node of dominated_subgraph (same addresses, none missing, none added), in
\* both analysis modes.
C11_ZeroThresholdKeepsAll ==
    (pc = "pruned" /\ relevance_threshold = <<0, 0>>) =>
        /\ subgraph.panic = ""
        /\ Len(subgraph.nodes) = node_count(Reduced)
        /\ SeqAddrs(subgraph.nodes) = NodeAddrs(Reduced)

C11_Witness ==
    /\ pc = "pruned" /\ subgraph.panic = ""
    /\ relevance_threshold = <<0, 0>>
    /\ chosen_root # ROOT
    /\ Len(subgraph.nodes) >= 3
    /\ \E k \in 1..Len(subgraph.nodes) : subgraph.nodes[k].label.refs = 0

\* The sum of the Stats f[x] over the elements x of S
RECURSIVE SumOver(_, _)
SumOver(S, f) ==
    IF S = {} THEN StatsDefault
    ELSE LET x == CHOOSE y \in S : TRUE
         IN  add(f[x], SumOver(S \ {x}, f))

\* table is what largest_and_rest owes for the entries of the map xs and
\* the count n
IsPartition(table, xs, n) ==
    LET L == table.largest
        keys == {L[k][1] : k \in 1..Len(L)}
        returned == [x \in keys |-> (CHOOSE k \in 1..Len(L) : L[k][1] = x)]
    IN  /\ Len(L) = Min(n, Cardinality(DOMAIN xs))
        /\ Cardinality(keys) = Len(L)
        /\ \A k \in 1..Len(L) : L[k][1] \in DOMAIN xs /\ L[k][2] = xs[L[k][1]]
        /\ \A k \in 1..(Len(L) - 1) : L[k][2].bytes >= L[k + 1][2].bytes
        /\ \A k \in 1..Len(L) : \A x \in (DOMAIN xs) \ keys : L[k][2].bytes >= xs[x].bytes
        /\ add(SumOver(keys, [x \in keys |-> L[returned[x]][2]]), table.rest) =
               SumOver(DOMAIN xs, xs)
        /\ n >= Cardinality(DOMAIN xs) => table.rest = StatsDefault

\* The entries the four ranked queries rank, stated over the analysis
LiveByKind ==
    [K \in {Weight(Reduced, i).kind : i \in node_indices(Reduced)} |->
        SumStats(Reduced, {i \in node_indices(Reduced) : Weight(Reduced, i).kind = K})]

RetainedByKind ==
    [K \in {Weight(Reduced, i).kind : i \in node_indices(Reduced)} |->
        SumOver({i \in node_indices(Reduced) : Weight(Reduced, i).kind = K},
                analysis.subtree_sizes)]

UnreachableByKind ==
    [K \in {analysis.rest[k].kind : k \in 1..Len(analysis.rest)} |->
        SumOver({k \in 1..Len(analysis.rest) : analysis.rest[k].kind = K},
                [k \in 1..Len(analysis.rest) |-> stats(analysis.rest[k])])]

SubtreeByObject ==
    [o \in {Weight(Reduced, i) : i \in node_indices(Reduced)} |->
        analysis.subtree_sizes[CHOOSE i \in node_indices(Reduced) : Weight(Reduced, i) = o]]

\* C12: largest_and_rest(xs, N) is a partition of xs: it returns min(N, |xs|)
\* entries sorted by bytes descending, none of the returned entries has fewer
\* bytes than an entry left out, and the Stats sum of the returned entries
\* plus the returned rest equals the Stats sum of all of xs; when N >= |xs|
\* the rest is the identity Stats (0, 0).
C12_LargestAndRestPartition ==
    pc = "ranked" =>
        /\ IsPartition(ranked.live, LiveByKind, top_n)
        /\ IsPartition(ranked.retained, RetainedByKind, top_n)
        /\ IsPartition(ranked.unreachable, UnreachableByKind, top_n)
        /\ IsPartition(ranked.subtree, SubtreeByObject, top_n)

C12_Witness ==
    /\ pc = "ranked" /\ top_n = 2
    /\ Len(ranked.subtree.largest) = 2
    /\ ranked.subtree.rest.count = 2
    /\ ranked.subtree.largest[1][2].bytes > ranked.subtree.largest[2][2].bytes
    /\ ranked.subtree.largest[2][2].bytes > ranked.subtree.rest.bytes
    /\ Len(ranked.live.largest) = 2
    /\ ranked.live.rest.count = 1

\* C13: running the analysis and the ranked queries (live_stats_by_kind,
\* retained_stats_by_kind, unreachable_stats_by_kind, dominator_subtree_stats)
\* twice on the same input graph with the same N produces identical ranked
\* tables: the same keys in the same order with the same Stats and the same
\* rest, whatever the iteration order of the hash maps involved and also when
\* several entries tie on bytes.
C13_RankedTablesDeterministic ==
    [][(pc = "ranked" /\ pc' = "ranked") => ranked' = ranked]_vars

\* C14: for every node v of dominated_subgraph, subtree_sizes[v].bytes >=
\* v.bytes and subtree_sizes[v].count >= 1, so the subtraction stats.bytes -
\* self.bytes made by with_dominator_stats when labelling a retained node
\* never underflows.
C14_SizesCoverSelf ==
    /\ pc = "analyzed" =>
           /\ analysis.panic = ""
           /\ \A i \in node_indices(Reduced) :
                  /\ i \in DOMAIN analysis.subtree_sizes
                  /\ analysis.subtree_sizes[i].bytes >= Weight(Reduced, i).bytes
                  /\ analysis.subtree_sizes[i].count >= 1
    /\ pc = "pruned" =>
           /\ subgraph.panic = ""
           /\ \A k \in 1..Len(subgraph.nodes) : subgraph.nodes[k].label.refs >= 0

C14_Witness ==
    /\ pc = "pruned" /\ subgraph.panic = ""
    /\ \E k \in 1..Len(subgraph.nodes) :
           subgraph.nodes[k].label.refs = 0 /\ subgraph.nodes[k].bytes >= 1
    /\ \E k \in 1..Len(subgraph.nodes) :
           subgraph.nodes[k].label.refs >= 2 /\ subgraph.nodes[k].bytes >= 1

\* C15: when the user-supplied subgraph root address matches no node of the
\* graph, the run fails hard with a message and no analysis is produced: no
\* reduced graph, no dominators and no size tables are returned for that
\* address.
C15_RootNotFoundFails ==
    (pc = "filtered" /\ given_root # None /\ given_root \notin NodeAddrs(graph)) =>
        /\ filtered.panic = "Given subtree root address not found"
        /\ filtered.root = None
        /\ filtered.graph = EmptyGraph
        /\ filtered.dominators = EmptyMap

C15_Witness ==
    /\ pc = "filtered"
    /\ given_root = MissingAddress
    /\ edge_count(graph) >= 2
    /\ filtered.panic # ""

-----------------------------------------------------------------------------
(* Properties of the graph builder, stated over the record stream *)

\* The lines read so far and the line the run failed on
LinesRead == SubSeq(reader.lines, 1, parser.line)

FailedLine == reader.lines[parser.line]

\* The address string of a record is usable: it is present and the text after
\* its two-character prefix is a hexadecimal number other than 0
UsableAddress(line) ==
    /\ line.address # <<>>
    /\ Len(line.address[1]) >= 2
    /\ from_str_radix(SubSeq(line.address[1], 3, Len(line.address[1]))).ok
    /\ from_str_radix(SubSeq(line.address[1], 3, Len(line.address[1]))).value # 0

AddressOfLine(line) ==
    IF UsableAddress(line)
    THEN from_str_radix(SubSeq(line.address[1], 3, Len(line.address[1]))).value
    ELSE 0

\* The addresses a record lists among its references
ListedRefs(line) ==
    {from_str_radix(SubSeq(r, 3, Len(r))).value :
        r \in {x \in Range(line.references) :
                  Len(x) >= 2 /\ from_str_radix(SubSeq(x, 3, Len(x))).ok}}

\* The out-edges of the graph as pairs <<address of source, address of target>>
EdgeAddrs(g) == Range(AddrEdges(g, g.edges))

\* C16: a record whose type is not ROOT and that has no usable address
\* (address absent or unparsable, hence 0) is dropped entirely: parse does
\* not fail or abort, adds no node and no edge for it, and goes on to process
\* the remaining records of the stream.
C16_UnaddressedRecordDropped ==
    /\ pc = "panicked" =>
           ~(FailedLine.object_type # "ROOT" /\ ~UsableAddress(FailedLine))
    /\ pc \in {"reading", "parsed"} =>
           node_count(parser.graph) =
               1 + Cardinality({k \in 1..parser.line : UsableAddress(reader.lines[k])})

\* A record lacks a field that its label needs
LacksLabelField(line) ==
    \/ line.object_type = "ARRAY" /\ line.length = <<>>
    \/ line.object_type = "HASH" /\ line.size = <<>>

\* C17: a record lacking a field its label needs (an ARRAY record without
\* length, a HASH record without size) is handled silently by the label
\* logic: parse does not fail or abort on it, and the remaining records of
\* the stream are still processed.
C17_MissingLabelFieldSilent ==
    pc = "panicked" => ~(LacksLabelField(FailedLine) /\ UsableAddress(FailedLine))

\* The references stored for an address: those of all the records of the
\* synthetic root for address 0, those of the record of that address
\* otherwise (of the last one that lists any, should several records carry
\* the address)
StoredRefs(A) ==
    LET mine == {k \in 1..Len(reader.lines) : AddressOfLine(reader.lines[k]) = A}
        listing == {k \in mine : ListedRefs(reader.lines[k]) # {}}
    IN  IF A = 0 THEN UNION {ListedRefs(reader.lines[k]) : k \in mine}
        ELSE IF listing = {} THEN {}
        ELSE ListedRefs(reader.lines[CHOOSE k \in listing : \A j \in listing : j <= k])

\* The edges follow the stored references when nodes are told apart by
\* their addresses, as Object's equality does, for every stream
EdgesResolvedByAddress ==
    pc = "parsed" =>
        /\ parser.panic = ""
        /\ \A A \in NodeAddrs(parser.graph), B \in NodeAddrs(parser.graph) :
               <<A, B>> \in EdgeAddrs(parser.graph) <=> B \in StoredRefs(A)

\* The record that became node i >= 1 of the parsed graph: the i-th record
\* of the stream with a usable address
NodeLine(i) ==
    LET ks == {k \in 1..Len(reader.lines) : UsableAddress(reader.lines[k])}
    IN  CHOOSE k \in ks : Cardinality({j \in ks : j <= k}) = i

\* The addresses listed by the record of node i; for the synthetic root, by
\* the records that contribute to it
NodeRefs(i) == IF i = 0 THEN StoredRefs(0) ELSE ListedRefs(reader.lines[NodeLine(i)])

\* C18: after parse, the graph has an edge from node a to node b exactly when
\* the record stored for a lists b's address among its references and b is a
\* node of the graph; references to addresses of no node are dropped without
\* failure, and the result does not depend on whether the referenced record
\* comes before or after the referencing record in the stream.
C18_EdgesAreResolvedReferences ==
    pc = "parsed" =>
        /\ parser.panic = ""
        /\ \A a \in node_indices(parser.graph), b \in node_indices(parser.graph) :
               <<a, b>> \in Range(parser.graph.edges) <=>
                   Weight(parser.graph, b).address \in NodeRefs(a)

\* The same for the streams in which no two records carry the same address
EdgesResolvedWhenAddressesUnique ==
    (\A j, k \in 1..Len(reader.lines) :
        (j # k /\ UsableAddress(reader.lines[j])) =>
            AddressOfLine(reader.lines[j]) # AddressOfLine(reader.lines[k]))
        => C18_EdgesAreResolvedReferences

\* C19: for any record stream, the graph built by parse contains exactly one
\* node with address 0, the synthetic root, and that node has in-degree 0: no
\* edge of the built graph targets it.
C19_RootHasNoInEdges ==
    pc = "parsed" =>
        /\ Cardinality({i \in node_indices(parser.graph) :
                           Weight(parser.graph, i).address = 0}) = 1
        /\ Weight(parser.graph, 0).address = 0
        /\ \A e \in Range(parser.graph.edges) : Weight(parser.graph, e[2]).address # 0

\* C20: every record of type ROOT contributes its references to the
\* synthetic root: after parse, the out-edges of the synthetic root are
\* exactly the resolvable references of all ROOT-typed records of the stream,
\* accumulated across several ROOT records (a later ROOT record never
\* overwrites an earlier one), and no ROOT-typed record becomes a node of its
\* own.
C20_RootRecordsAccumulate ==
    pc = "parsed" =>
        LET g == parser.graph
            roots == {k \in 1..Len(reader.lines) : reader.lines[k].object_type = "ROOT"}
        IN  /\ {Weight(g, e[2]).address : e \in {x \in Range(g.edges) : x[1] = 0}} =
                   (UNION {ListedRefs(reader.lines[k]) : k \in roots}) \cap NodeAddrs(g)
            /\ node_count(g) = 1 + Len(reader.lines) - Cardinality(roots)

\* C21: for any record stream, node addresses in the graph built by parse
\* are unique: no two nodes of the graph carry the same address, also when
\* the stream contains two records with the same address.
C21_NodeAddressesUnique ==
    pc \in {"reading", "parsed"} =>
        \A i, j \in node_indices(parser.graph) :
            i # j => Weight(parser.graph, i).address # Weight(parser.graph, j).address

\* Without two records of one address in the stream the addresses of the
\* nodes are unique
AddressesUniqueWhenRecordsAre ==
    (\A j, k \in 1..Len(reader.lines) :
        (j # k /\ UsableAddress(reader.lines[j])) =>
            AddressOfLine(reader.lines[j]) # AddressOfLine(reader.lines[k]))
        => C21_NodeAddressesUnique

\* No two records of the stream carry the same usable address
RecordAddressesUnique ==
    \A j, k \in 1..Len(reader.lines) :
        (j # k /\ UsableAddress(reader.lines[j])) =>
            AddressOfLine(reader.lines[j]) # AddressOfLine(reader.lines[k])

\* The class address of a record, 0 when it has none that parses
ClassOfLine(line) ==
    IF line.class # <<>> /\ Len(line.class[1]) >= 2
       /\ from_str_radix(SubSeq(line.class[1], 3, Len(line.class[1]))).ok
    THEN from_str_radix(SubSeq(line.class[1], 3, Len(line.class[1]))).value
    ELSE 0

\* The names of the records of address c
NamesAt(c) ==
    {reader.lines[k].name[1] :
        k \in {j \in 1..Len(reader.lines) :
                  /\ UsableAddress(reader.lines[j])
                  /\ AddressOfLine(reader.lines[j]) = c
                  /\ reader.lines[j].name # <<>>}}

\* C22: after parse, the kind of a node is the name of its class node when
\* the node's record has a class address that belongs to a record with a
\* name, and is the record's raw type otherwise; the rewrite uses the
\* recorded names only (never an already rewritten kind) and gives the same
\* result whether the class record comes before or after the instance record.
C22_KindIsClassName ==
    pc = "parsed" =>
        \A i \in node_indices(parser.graph) \ {0} :
            LET line == reader.lines[NodeLine(i)]
                names == NamesAt(ClassOfLine(line))
            IN  IF line.class # <<>> /\ names # {}
                THEN Weight(parser.graph, i).kind \in names
                ELSE Weight(parser.graph, i).kind = line.object_type

\* The same for the streams in which no two records carry the same address
KindIsClassNameWhenAddressesUnique == RecordAddressesUnique => C22_KindIsClassName

\* A stream without two records of one address in which an instance follows
\* or precedes its named class, which is itself an instance with a rewritten
\* kind
KindRewriteHappens ==
    /\ pc = "parsed"
    /\ RecordAddressesUnique
    /\ \E i, j \in node_indices(parser.graph) \ {0} :
           /\ i < j
           /\ Weight(parser.graph, i).kind = "Foo"
           /\ Weight(parser.graph, j).kind = "Bar"

\* C23: the graph builder produces no multi-edges: for any record stream,
\* the graph built by parse has at most one edge for each ordered pair of
\* nodes, also when a record lists the same address several times in its
\* references or several ROOT records list the same address.
C23_NoMultiEdges ==
    pc = "parsed" =>
        \A j, k \in 1..Len(parser.graph.edges) :
            j # k => parser.graph.edges[j] # parser.graph.edges[k]

\* A record lists an address twice, or two ROOT records list the same address
ListsTwice ==
    \/ \E k \in 1..Len(reader.lines) :
           \E x, y \in 1..Len(reader.lines[k].references) :
               x # y /\ reader.lines[k].references[x] = reader.lines[k].references[y]
    \/ \E j, k \in 1..Len(reader.lines) :
           /\ j # k
           /\ ~UsableAddress(reader.lines[j]) /\ ~UsableAddress(reader.lines[k])
           /\ ListedRefs(reader.lines[j]) \cap ListedRefs(reader.lines[k]) # {}

\* Without a repeated reference there is no multi-edge
NoMultiEdgesWhenListedOnce == ~ListsTwice => C23_NoMultiEdges

-----------------------------------------------------------------------------
(* Further properties of the restriction filter and of the engine *)

\* The messages of the cheap sanity checks of remove_unreachable and
\* extract_dominated_subgraph
CheapAssertions ==
    {"assertion failed: reachable + unreachable == node_count",
     "assertion failed: dominator_addrs.len() <= reachable.node_count()",
     "assertion failed: reachable.len() <= graph.node_count()",
     "assertion failed: dominator_addrs.len() <= graph.node_count()",
     "assertion failed: dominator_addrs.len() <= dominators.len()",
     "assertion failed: dominator_addrs.len() <= reachable.len()",
     "assertion failed: dominated + rest == reachable",
     "assertion failed: dominated.node_count() <= dominator_addrs.len() + 1"}

\* C24: for every input graph with unique node addresses, the cheap sanity
\* assertions of the restriction filter never fail: in whole-graph mode
\* reachable count + unreachable count = total node count; in subtree mode
\* dominated count + rest count = number of nodes reachable from s, the
\* dominated set is a subset of the set reachable from s, and dominated count
\* <= number of proved-dominated edges + 1.
C24_CheapAssertionsHold ==
    pc = "analyzed" =>
        /\ analysis.panic \notin CheapAssertions
        /\ chosen_root = ROOT =>
               node_count(Reduced) + Len(analysis.rest) = node_count(graph)
        /\ chosen_root # ROOT =>
               /\ node_count(Reduced) + Len(analysis.rest) =
                      Cardinality(Reachable(graph, chosen_root))
               /\ NodeAddrs(Reduced) \subseteq AddrOf(graph, Reachable(graph, chosen_root))
               /\ node_count(Reduced) <= Cardinality(DOMAIN analysis.dominators) + 1

C24_Witness ==
    /\ pc = "analyzed" /\ chosen_root # ROOT /\ analysis.panic = ""
    /\ node_count(Reduced) >= 2
    /\ Len(analysis.rest) >= 1
    /\ Reachable(graph, chosen_root) # node_indices(graph)

\* The engine run one loop turn at a time ends as from_graph does
EngineStepsAgree ==
    engine.phase \in {"done", "panicked"} =>
        LET t == from_graph(AdjList(graph), engine.debug)
        IN  /\ engine.panic = t.panic
            /\ engine.phase = "done" =>
                   /\ engine.nodes = t.nodes
                   /\ engine.postorder = t.postorder

NeverDiverged == engine.phase # "diverged"

\* The RPO number a node holds in the engine
Rpo(n) == engine.nodes[n].rpo_number

\* A turn of the loop of common_dominator that moves a finger
WalkMoves == engine.phase = "walk" /\ engine'.phase = "walk"

\* C25: intersect(a, b) (common_dominator) walks both nodes up the partial
\* dominator tree, at each step moving upward the node with the smaller RPO
\* number, until the two walks meet at the same node.
C25_MovesSmallerRpo ==
    [][/\ WalkMoves =>
              /\ engine'.a # engine.a => Rpo(engine.a) < Rpo(engine.b)
              /\ engine'.b # engine.b => Rpo(engine.b) < Rpo(engine.a)
       /\ (engine.phase = "walk" /\ engine'.phase = "fold") => engine.a = engine.b]_vars

\* C25 as the code has it: at each step the node with the larger RPO number
\* (the one that comes later in the reverse postorder) moves to its idom, the
\* other stays, and the walk goes on until both are the same node, which is
\* the result.
C25_MovesLargerRpo ==
    [][/\ WalkMoves =>
              \/ /\ Rpo(engine.a) > Rpo(engine.b)
                 /\ engine'.a = engine.nodes[engine.a].idom
                 /\ engine'.b = engine.b
              \/ /\ Rpo(engine.b) > Rpo(engine.a)
                 /\ engine'.b = engine.nodes[engine.b].idom
                 /\ engine'.a = engine.a
       /\ engine.phase = "walk" =>
              /\ engine'.phase \in {"walk", "fold"}
              /\ engine'.phase = "fold" => engine.a = engine.b /\ engine'.idom = engine.a]_vars

\* A walk in which both fingers have moved
C25_Witness ==
    /\ engine.phase = "walk"
    /\ engine.a # engine.idom
    /\ engine.b # engine.pending[1]

\* The node whose idom the pass computes next
NextNode == Reverse(engine.postorder)[engine.k]

\* The predecessors of a node that hold an assigned RPO number
VisitedPreds(n) ==
    {p \in Range(engine.nodes[n].predecessors) : engine.nodes[p].rpo_number > 1}

\* At the moment the idom of a node other than the root is computed, in the
\* initial pass or in a sweep, a predecessor of it holds an assigned RPO number
NonRootHasVisitedPred ==
    (engine.phase = "pass" /\ engine.k <= Len(engine.postorder) /\ NextNode # ROOT) =>
        VisitedPreds(NextNode) # {}

\* C26: in the initial pass of compute_domtree over any graph (self-loops,
\* cycles and multi-edges included), every reachable non-root node, at the
\* moment its idom is first computed, has at least one predecessor that
\* already holds an assigned RPO number (rpo_number > 1); so compute_idom's
\* expectation 'Node must have one reachable predecessor' and
\* common_dominator's expectation 'Unreachable node?' never fail, in the
\* initial pass or in any later sweep.
C26_ExpectationsNeverFail ==
    /\ NonRootHasVisitedPred
    /\ engine.panic \notin {"Node must have one reachable predecessor", "Unreachable node?"}

\* The same in builds with debug assertions, where the root is popped off
\* the postorder before the passes
ExpectationsHoldInDebugBuilds == engine.debug => C26_ExpectationsNeverFail

\* A pass is about to compute the idom of a node, in a build with debug
\* assertions, on a graph with a self-loop and a multi-edge
ExpectationsAtWork ==
    /\ engine.debug /\ engine.phase = "pass" /\ engine.pass = "first"
    /\ engine.k <= Len(engine.postorder)
    /\ \E j, k \in 1..Len(graph.edges) : j # k /\ graph.edges[j] = graph.edges[k]
    /\ \E k \in 1..Len(graph.edges) : graph.edges[k][1] = graph.edges[k][2]

\* The postorder holds each node reachable from the root exactly once
PostorderIsReachableOnce ==
    /\ Range(engine.postorder) = Reachable(graph, ROOT)
    /\ Len(engine.postorder) = Cardinality(Reachable(graph, ROOT))

\* C27: the dominator computation terminates on every finite graph: the
\* depth-first traversal of compute_postorder empties its stack after putting
\* each reachable node in the postorder exactly once, every walk of
\* common_dominator ends, and the fixed-point loop of compute_domtree
\* eventually makes a full sweep in which no idom entry changes.
C27_Terminates ==
    /\ <>(engine.phase = "postorder" /\ engine.stack = <<>> /\ PostorderIsReachableOnce)
    /\ (engine.phase = "walk") ~> (engine.phase = "fold")
    /\ <>(engine.phase = "done" /\ engine.pass = "sweep" /\ ~engine.changed)

\* The same in builds with debug assertions
TerminatesInDebugBuilds == engine.debug => C27_Terminates

\* In every build the traversal ends with each reachable node in the
\* postorder once, every walk ends, and the run ends: in a full sweep without
\* a change or in a panic
TerminatesOrPanics ==
    /\ <>(engine.phase = "postorder" /\ engine.stack = <<>> /\ PostorderIsReachableOnce)
    /\ (engine.phase = "walk") ~> (engine.phase = "fold")
    /\ <>(engine.phase \in {"done", "panicked"})

\* The address of the immediate dominator of v, by the definition over paths
IdomAddr(v) ==
    Weight(graph, CHOOSE d \in node_indices(graph) : IsIdom(graph, ROOT, d, v)).address

\* The pairs (address of v, address of idom(v)) for the nodes v other than s
\* whose chain of immediate dominators reaches s
ChainsThatReach(s) ==
    LET D == DominatedBy(graph, ROOT, s)
    IN  [a \in AddrOf(graph, D) |->
            IdomAddr(CHOOSE v \in D : Weight(graph, v).address = a)]

\* C28: find_addrs_of_filtered_edges returns the same map, namely exactly the
\* pairs (address of v, address of idom(v)) for every node v other than s
\* whose idom chain reaches s, whatever the order in which the entries of the
\* idom map are iterated, and whether it is given the set of nodes reachable
\* from s or the set of all nodes of the graph (the early exit on a parent
\* outside the reachable set changes no result).
C28_FilteredEdgesAreTheChains ==
    pc = "found" => filter_call.result = ChainsThatReach(filter_call.root)

\* A call with the reachable set in which the early exit is taken for an
\* entry, a chain of two entries reaches s, and the deeper entry comes first
C28_Witness ==
    /\ pc = "found" /\ ~filter_call.all
    /\ LET dominators == find_dominators(ROOT, graph)
       IN  /\ \E c \in DOMAIN dominators :
                  dominators[c] \notin Reachable(graph, filter_call.root)
           /\ \E j, k \in 1..Len(filter_call.order) :
                  /\ j < k
                  /\ dominators[filter_call.order[j]] = filter_call.order[k]
                  /\ dominators[filter_call.order[k]] = filter_call.root

\* An idom map over the indices of g as a map from address to address
IdomByAddr(g, doms) ==
    [a \in AddrOf(g, DOMAIN doms) |->
        Weight(g, doms[CHOOSE i \in DOMAIN doms : Weight(g, i).address = a]).address]

\* C29: for every graph and every subgraph root s reachable from the original
\* root, the restriction of analyze.rs (filter the precomputed idom map to the
\* chains that reach s) agrees with the earlier method of main.rs (retain the
\* nodes that have s among their dominators, then recompute dominators on the
\* retained graph rooted at s): both keep the same set of nodes, and both
\* give every kept node other than s the same immediate dominator.
C29_RestrictionsAgree ==
    (pc = "compared" /\ chosen_root \in Reachable(graph, ROOT)) =>
        /\ analysis.panic = ""
        /\ filtered.panic = ""
        /\ NodeAddrs(Reduced) = NodeAddrs(filtered.graph)
        /\ node_count(Reduced) = node_count(filtered.graph)
        /\ Weight(Reduced, analysis.root).address = Weight(filtered.graph, filtered.root).address
        /\ IdomByAddr(Reduced, analysis.dominators) =
               IdomByAddr(filtered.graph, filtered.dominators)

\* A subgraph root other than the root that keeps a node it does not dominate
\* immediately and leaves out a node reachable from it
C29_Witness ==
    /\ pc = "compared" /\ chosen_root # ROOT /\ chosen_root \in Reachable(graph, ROOT)
    /\ analysis.panic = "" /\ filtered.panic = ""
    /\ \E i \in DOMAIN filtered.dominators : filtered.dominators[i] # filtered.root
    /\ Len(analysis.rest) >= 1

\* The run of parse on the same stream with the other setting of
\* class_name_only, the keys of its references map coming in ascending order
OtherSetting ==
    LET read == ReadLines(ParserStart, reader.lines, ~reader.class_name_only)
    IN  parse(reader.lines, ~reader.class_name_only, Ascending(DOMAIN read.references))

\* The nodes of a graph without their labels
Unlabelled(g) ==
    [k \in 1..Len(g.nodes) |-> <<g.nodes[k].address, g.nodes[k].bytes, g.nodes[k].kind>>]

\* The number of edges of g from a to b
EdgeCount(g, a, b) == Cardinality({k \in 1..Len(g.edges) : g.edges[k] = <<a, b>>})

\* C30: the class_name_only flag of parse affects labels only: for every
\* record stream, the two settings of the flag yield graphs with the same
\* nodes (same addresses, bytes and kinds) and the same edges, and the same
\* records are accepted or rejected under both settings.
C30_FlagAffectsLabelsOnly ==
    /\ pc = "panicked" =>
           OtherSetting.panic # "" /\ OtherSetting.line = parser.line
    /\ pc = "parsed" =>
           /\ OtherSetting.panic = ""
           /\ Unlabelled(OtherSetting.graph) = Unlabelled(parser.graph)
           /\ \A a, b \in node_indices(parser.graph) :
                  EdgeCount(OtherSetting.graph, a, b) = EdgeCount(parser.graph, a, b)

\* The same for the streams in which no record lacks a field its label needs
LabelsOnlyWhenFieldsPresent ==
    (\A k \in 1..Len(reader.lines) : ~LacksLabelField(reader.lines[k]))
        => C30_FlagAffectsLabelsOnly

\* Two settings that give graphs with different labels and the same edges
LabelsDiffer ==
    /\ pc = "parsed"
    /\ OtherSetting.panic = ""
    /\ OtherSetting.graph # parser.graph
    /\ parser.graph.edges # <<>>

\* The run of parse by loop turns ends as parse does
ParseStepsAgree ==
    pc \in {"parsed", "panicked"} =>
        \E order \in Perms(DOMAIN parser.references) :
            parser = parse(reader.lines, reader.class_name_only, order)

====
